---- MODULE Spec2Model ----
(***************************************************************************)
(* A model of the win16ne decoders: the NE container/table decoders        *)
(* (src/src/ne, src/src/mz.rs) and the partial x86 instruction decoder     *)
(* (src/src/x86.rs).                                                       *)
(*                                                                         *)
(* One run of the model is one call of one routine, selected by `op`.      *)
(* The byte source of a table decoder is the environment: it holds         *)
(* src_len bytes, nread of them have been consumed, and the value of each  *)
(* byte is drawn when the decoder reads it.  read_exact(n) succeeds iff    *)
(* n more bytes exist, and otherwise consumes what is left and fails with  *)
(* UnexpectedEof.                                                          *)
(***************************************************************************)
EXTENDS Integers, Sequences, FiniteSets, TLC

\* ------------------------------------------------------------------ bounds
MaxEntTab == 8      \* largest declared entry-table length (cb_ent_tab)
MaxStream == 9      \* largest number of bytes a table decoder's source holds
MaxCode == 3        \* longest byte slice handed to disassemble
MaxRelocs == 2      \* largest relocation count prefix
MaxTypes == 2       \* largest counted number of resource-type records
MaxResources == 1   \* largest num_resources of a resource-type record
MaxSegs == 2        \* largest segment_count of a header whose tables are read
MaxModRefs == 2     \* largest module-reference count
MaxNameLen == 2     \* largest length prefix of a name-table entry
MaxIterLen == 5     \* longest segment buffer handed to define_disassemble

\* --------------------------------------------------------------- constants
U16 == 65536        \* 2^16: u16 arithmetic is modulo this

VARIABLES
    op,               \* the routine this run executes
    pc,               \* its control position: a loop label, "ok", "err", "panic"
    err,              \* io::ErrorKind of the Err returned ("" while none)
    nread,            \* bytes the routine has consumed from its reader r
    src_len,          \* bytes the reader r holds
    overflow_checks,  \* build profile: TRUE = arithmetic overflow panics (debug),
                      \*                FALSE = it wraps (release)
    \* EntryTable::read_sf
    cb_ent_tab,       \* the declared length argument
    bytes_remaining,  \* the u16 budget
    buffer,           \* the bundle header last read (<<>> before the first)
    entries,          \* Vec<SegmentEntry>
    bundle,           \* the bundle whose body is being read: [seg_id, left]
    underflowed,      \* history: bytes_remaining -= 2 wrapped below 0
    sf_stream,        \* history: the bytes read_sf has read, in order
    \* x86::disassemble
    code,             \* the byte slice
    is_32,            \* the default-width flag
    pos,              \* the loop's position (0-based)
    insts,            \* Vec<Inst>
    printed,          \* the instruction texts of the listing, one per line
    \* RelocationTable::read
    count,            \* the 2-byte count prefix (-1 before it is read)
    rel_entries,      \* Vec<RelocationEntry>
    entry_bufs,       \* history: every entry_buf read, in order
    \* NeResourceTable::read / read_variadic
    num_entries,      \* ne_header.resource_table_entries
    callee,           \* the decoder NeExecutable::read chose ("" before)
    resource_types,   \* Vec<NeResourceType>
    type_headers,     \* history: every NeResourceTypeHeader read, in order
    cur_type,         \* the resource type whose resources are being read
    \* readers that seek (NeSegment::read_data, NeExecutable::read)
    r_pos,            \* the reader's position
    io_log,           \* history: the seeks and reads made, in order
    \* NeSegment
    seg_buf,          \* history: the 8 bytes NeSegmentHeader::read read
    ne_segment,          \* the NeSegment (<<>> before NeSegment::read)
    \* NeExecutable::read
    dos_buf,          \* history: the 64 bytes DosHeader::read read
    ne_buf,           \* history: the 64 bytes NeHeader::read read
    dos_header,       \* the DosHeader (<<>> before it is read)
    ne_header,        \* the NeHeader (<<>> before it is read)
    \* NeExecutable::read after the headers
    stages,           \* history: the table and segment reads begun, in order
    segment_entries,  \* the NeSegments of the segment table
    seg_i,            \* the segment `for segment in &mut segment_entries` is at
    relocs_per_segment, \* the relocation tables pushed (their segment numbers)
    exe,              \* what read has returned: "none", or "built" after Ok(Self)
    \* ModuleReferenceTable::read / read_names
    mr_num,           \* the num argument of ModuleReferenceTable::read
    mr_offset,        \* the offset argument of read_names (the import-name-table base)
    mr_file,          \* the bytes the file holds from mr_offset on
    mr_entries,       \* Vec<ModuleReferenceEntry>
    mr_bufs,          \* history: the 2-byte buffers ModuleReferenceEntryHeader::read read
    mr_i,             \* the entry `for entry in &mut self.entries` is at
    \* ResidentNameTable::read / NonresidentNameTable::read
    nt_table,         \* which of the two name tables is read
    nt_entries,       \* Vec<ResidentNameEntry> / Vec<NonresidentNameEntry>
    nt_stream,        \* history: the bytes the decoder has read, in order
    \* define_disassemble / iter_segment_bytes
    dd_data,          \* the segment buffer handed to define_disassemble
    dd_is_data,       \* its is_data argument (flags & 0x0001 != 0)
    dd_is_iterated,   \* its is_iterated argument (flags & 0x0002 != 0)
    dd_out,           \* what it did: skipped, or the bytes it handed to x86::disassemble
    \* NeExecutable::describe
    desc_names,       \* the numbers of resident and non-resident name entries of the executable
    desc_i,           \* the segment `for (i, segment) in segment_entries.iter().enumerate()` is at
    desc_shown        \* history: per segment, the segment whose relocation table was listed (0: none)

disVars == <<code, is_32, pos, insts, printed>>
relVars == <<count, rel_entries, entry_bufs>>
resVars == <<num_entries, callee, resource_types, type_headers, cur_type>>
fileVars == <<r_pos, io_log>>
segVars == <<seg_buf, ne_segment>>
neVars == <<dos_buf, ne_buf, dos_header, ne_header>>
tblVars == <<stages, segment_entries, seg_i, relocs_per_segment, exe>>
modVars == <<mr_num, mr_offset, mr_file, mr_entries, mr_bufs, mr_i>>
nameVars == <<nt_table, nt_entries, nt_stream>>
ddVars == <<dd_data, dd_is_data, dd_is_iterated, dd_out>>
descVars == <<desc_names, desc_i, desc_shown>>
sfVars == <<cb_ent_tab, bytes_remaining, buffer, entries, bundle, underflowed,
            sf_stream>>
ioVars == <<nread, src_len>>
vars == <<op, pc, err, nread, src_len, overflow_checks, sfVars, disVars, relVars,
          resVars, fileVars, segVars, neVars, tblVars, modVars, nameVars, ddVars, descVars>>

\* ------------------------------------------------------------- byte helpers
Byte == 0..255

\* u16::from_le_bytes([lo, hi])
u16_from_le_bytes(buf) == buf[1] + 256 * buf[2]

\* ------------------------------------------- EntryTable::read_sf (entry_table.rs)
CountBytes == {0, 1, 2, 255}          \* bundle header byte 0 values drawn
SegIdBytes == {0, 1, 254, 255}        \* bundle header byte 1 values drawn
FixedBodies == { <<0, 0, 0>>, <<3, 52, 18>> }
MoveableBodies == { <<0, 205, 63, 1, 0, 0>>, <<3, 205, 63, 2, 52, 18>> }

Unused == [kind |-> "Unused"]

\* FixedSegmentEntry::read taking the offset high byte first
FixedSegmentEntry_read_be(buf, segment) ==
    [kind |-> "Fixed", segment |-> segment, flags |-> buf[1],
     offset |-> 256 * buf[2] + buf[3]]

\* FixedSegmentEntry::read(r, segment) applied to the 3 bytes read
FixedSegmentEntry_read(buf, segment) ==
    [kind |-> "Fixed", segment |-> segment, flags |-> buf[1],
     offset |-> u16_from_le_bytes(<<buf[2], buf[3]>>)]

\* MoveableSegmentEntry::read(r) applied to the 6 bytes read
MoveableSegmentEntry_read(buf) ==
    [kind |-> "Moveable", flags |-> buf[1], magic |-> <<buf[2], buf[3]>>,
     segment |-> buf[4], offset |-> u16_from_le_bytes(<<buf[5], buf[6]>>)]

\* n copies of x appended to s
PushN(s, x, n) == s \o [i \in 1..n |-> x]

\* let entry_size = if seg_id == 0xFF { 6 } else { 3 };
entry_size(seg_id) == IF seg_id = 255 THEN 6 ELSE 3

NoBundle == [seg_id |-> 0, left |-> 0]

SfIdle ==
    /\ cb_ent_tab = 0 /\ bytes_remaining = 0 /\ buffer = <<>> /\ entries = <<>>
    /\ bundle = NoBundle /\ underflowed = FALSE /\ sf_stream = <<>>

InitReadSf ==
    /\ op = "read_sf" /\ pc = "loop" /\ err = ""
    /\ nread = 0 /\ src_len \in 0..MaxStream
    /\ cb_ent_tab \in 0..MaxEntTab
    /\ bytes_remaining = cb_ent_tab
    /\ buffer = <<>> /\ entries = <<>> /\ bundle = NoBundle /\ underflowed = FALSE
    /\ sf_stream = <<>>

\* What the loop body does once the 2 header bytes are in `buffer` and the
\* budget has become br (lines 103-131).
SfAfterHeader(br) ==
    LET entries_count == buffer'[1]
        seg_id == buffer'[2]
        bundle_size == (entries_count * entry_size(seg_id)) % U16
    IN  IF entries_count = 0
        THEN \* End of table marker: break, then Ok
             /\ pc' = "ok" /\ bytes_remaining' = br
             /\ UNCHANGED <<err, entries, bundle>>
        ELSE IF seg_id = 0
        THEN \* Unused entries, then continue
             /\ entries' = PushN(entries, Unused, entries_count)
             /\ bytes_remaining' = br
             /\ UNCHANGED <<pc, err, bundle>>
        ELSE IF bundle_size > br
        THEN /\ pc' = "err" /\ err' = "InvalidData" /\ bytes_remaining' = br
             /\ UNCHANGED <<entries, bundle>>
        ELSE /\ bytes_remaining' = br - bundle_size
             /\ bundle' = [seg_id |-> seg_id, left |-> entries_count]
             /\ pc' = "entries"
             /\ UNCHANGED <<err, entries>>

\* One pass through the head of `while bytes_remaining > 0` (lines 97-131).
ReadSfHeader ==
    /\ op = "read_sf" /\ pc = "loop" /\ bytes_remaining > 0
    /\ UNCHANGED tblVars
    /\ UNCHANGED <<segVars, neVars, fileVars>>
    /\ UNCHANGED <<op, src_len, overflow_checks, cb_ent_tab, disVars, relVars, resVars>>
    /\ IF nread + 2 > src_len
       THEN \* r.read_exact(&mut buffer)? fails
            /\ pc' = "err" /\ err' = "UnexpectedEof" /\ nread' = src_len
            /\ UNCHANGED <<bytes_remaining, buffer, entries, bundle, underflowed, sf_stream>>
       ELSE /\ nread' = nread + 2
            /\ \E c \in CountBytes, s \in SegIdBytes : buffer' = <<c, s>>
            /\ sf_stream' = sf_stream \o buffer'
            /\ IF bytes_remaining < 2 /\ overflow_checks
               THEN \* bytes_remaining -= 2 panics: attempt to subtract with overflow
                    /\ pc' = "panic"
                    /\ UNCHANGED <<err, bytes_remaining, entries, bundle, underflowed>>
               ELSE /\ underflowed' = (underflowed \/ bytes_remaining < 2)
                    /\ SfAfterHeader((bytes_remaining - 2) % U16)
    /\ UNCHANGED modVars
    /\ UNCHANGED nameVars
    /\ UNCHANGED ddVars
    /\ UNCHANGED descVars

\* One iteration of `for _ in 0..entries_count` (lines 134-144).
ReadSfEntry ==
    /\ op = "read_sf" /\ pc = "entries"
    /\ UNCHANGED tblVars
    /\ UNCHANGED <<segVars, neVars, fileVars>>
    /\ UNCHANGED <<op, src_len, overflow_checks, cb_ent_tab, bytes_remaining, buffer, underflowed>>
    /\ UNCHANGED <<disVars, relVars, resVars>>
    /\ IF nread + entry_size(bundle.seg_id) > src_len
       THEN /\ pc' = "err" /\ err' = "UnexpectedEof" /\ nread' = src_len
            /\ UNCHANGED <<entries, bundle, sf_stream>>
       ELSE /\ nread' = nread + entry_size(bundle.seg_id)
            /\ IF bundle.seg_id = 255
               THEN \E buf \in MoveableBodies :
                       /\ entries' = Append(entries, MoveableSegmentEntry_read(buf))
                       /\ sf_stream' = sf_stream \o buf
               ELSE \E buf \in FixedBodies :
                       /\ entries' = Append(entries, FixedSegmentEntry_read(buf, bundle.seg_id))
                       /\ sf_stream' = sf_stream \o buf
            /\ bundle' = [bundle EXCEPT !.left = @ - 1]
            /\ pc' = IF bundle.left = 1 THEN "loop" ELSE "entries"
            /\ err' = err
    /\ UNCHANGED modVars
    /\ UNCHANGED nameVars
    /\ UNCHANGED ddVars
    /\ UNCHANGED descVars

\* The loop condition fails: Ok(Self { entries }) (line 147).
ReadSfReturn ==
    /\ op = "read_sf" /\ pc = "loop" /\ bytes_remaining = 0
    /\ UNCHANGED tblVars
    /\ UNCHANGED <<segVars, neVars, fileVars>>
    /\ pc' = "ok"
    /\ UNCHANGED <<op, err, nread, src_len, overflow_checks, sfVars, disVars, relVars, resVars>>
    /\ UNCHANGED modVars
    /\ UNCHANGED nameVars
    /\ UNCHANGED ddVars
    /\ UNCHANGED descVars


\* ------------------------------------------------------ x86 decoder (x86.rs)
\* The [u32; 8] bitmaps, one row per word, each word written as the four
\* 8-bit groups of its binary literal, most significant group first.
OPCODE_VALIDITY_MAP ==
    << <<255, 255, 255, 255>>,
       <<191, 191, 191, 191>>,
       <<255, 255, 255, 255>>,
       <<255, 255, 255, 15>>,
       <<255, 255, 255, 251>>,
       <<255, 255, 255, 255>>,
       <<255, 191, 255, 255>>,
       <<255, 240, 255, 255>> >>
OPCODE2_VALIDITY_MAP ==
    << <<0, 0, 0, 79>>,
       <<0, 0, 0, 95>>,
       <<0, 0, 0, 0>>,
       <<0, 0, 0, 0>>,
       <<255, 255, 255, 255>>,
       <<252, 252, 187, 59>>,
       <<0, 0, 0, 0>>,
       <<0, 0, 0, 0>> >>
HAS_MODRM ==
    << <<63, 63, 63, 63>>,
       <<63, 63, 63, 63>>,
       <<0, 0, 0, 0>>,
       <<0, 0, 250, 12>>,
       <<0, 0, 255, 251>>,
       <<0, 0, 0, 0>>,
       <<0, 15, 0, 243>>,
       <<192, 192, 240, 0>> >>
HAS_MODRM2 ==
    << <<0, 0, 0, 12>>,
       <<0, 0, 0, 95>>,
       <<0, 0, 0, 0>>,
       <<0, 0, 0, 0>>,
       <<0, 0, 0, 0>>,
       <<252, 252, 187, 56>>,
       <<0, 0, 0, 0>>,
       <<0, 0, 0, 0>> >>
IMMEDIATE_MAP ==
    << <<48, 48, 48, 48>>,
       <<48, 48, 48, 48>>,
       <<0, 0, 0, 0>>,
       <<255, 255, 15, 0>>,
       <<0, 0, 0, 11>>,
       <<255, 255, 3, 0>>,
       <<0, 0, 37, 199>>,
       <<0, 192, 15, 255>> >>
IMMEDIATE_BYTE_MAP ==
    << <<16, 16, 16, 16>>,
       <<16, 16, 16, 16>>,
       <<0, 0, 0, 0>>,
       <<255, 255, 5, 0>>,
       <<0, 0, 0, 9>>,
       <<0, 255, 1, 0>>,
       <<0, 0, 33, 65>>,
       <<0, 0, 8, 255>> >>
IMMEDIATE_WIDE_MAP ==
    << <<32, 32, 32, 32>>,
       <<32, 32, 32, 32>>,
       <<0, 0, 0, 0>>,
       <<0, 0, 10, 0>>,
       <<0, 0, 0, 2>>,
       <<255, 0, 2, 0>>,
       <<0, 0, 0, 130>>,
       <<0, 0, 3, 0>> >>

\* 2^n for the shifts used below
RECURSIVE Pow2(_)
Pow2(n) == IF n = 0 THEN 1 ELSE 2 * Pow2(n - 1)

\* a & b on non-negative integers
RECURSIVE BitAnd(_, _)
BitAnd(a, b) ==
    IF a = 0 \/ b = 0 THEN 0
    ELSE (a % 2) * (b % 2) + 2 * BitAnd(a \div 2, b \div 2)

\* (table[(byte >> 5) as usize] >> (byte & 31)) & 1 != 0
lookup_byte(table, byte) ==
    LET word == table[(byte \div 32) + 1]
        bit == BitAnd(byte, 31)
        group == word[4 - (bit \div 8)]
    IN  (group \div Pow2(bit % 8)) % 2 # 0

\* (byte >> 6, (byte >> 3) & 7, byte & 7)
split233(byte) == << byte \div 64, BitAnd(byte \div 8, 7), BitAnd(byte, 7) >>

\* Option<u8>: <<>> is None, <<b>> is Some(b)
is_some(o) == o # <<>>
as_usize(b) == IF b THEN 1 ELSE 0

\* enum Immediate, the value kept as its little-endian bytes
Immediate_None == [kind |-> "None", bytes |-> <<>>]

\* Immediate::len
Immediate_len(imm) ==
    CASE imm.kind = "None" -> 0
      [] imm.kind = "Byte" -> 1
      [] imm.kind = "Word" -> 2
      [] imm.kind = "DWord" -> 4

\* next_if taking the byte whatever the predicate says
next_if_unconditional(c, p, accepted) ==
    IF p < Len(c) THEN <<c[p + 1]>> ELSE <<>>

\* SimpleEater::next_if at eater position p (0-based) of slice c
next_if(c, p, accepted) ==
    IF p < Len(c) /\ c[p + 1] \in accepted THEN <<c[p + 1]>> ELSE <<>>

\* SimpleEater::next at eater position p: <<>> stands for Err(EatError)
next(c, p) == IF p < Len(c) THEN <<c[p + 1]>> ELSE <<>>

\* The `match disp_size / immediate_size` reads: size eater.next()? calls.
\* [ok |-> FALSE] stands for the EatError of a failed next.
read_immediate(c, p, size) ==
    LET n == CASE size = "None" -> 0 [] size = "Byte" -> 1
               [] size = "Word" -> 2 [] size = "DWord" -> 4
    IN  IF p + n > Len(c) THEN [ok |-> FALSE]
        ELSE [ok |-> TRUE, imm |-> [kind |-> size, bytes |-> SubSeq(c, p + 1, p + n)]]

EatError == [ok |-> FALSE]

\* disp_size using the 16-bit rules whatever the address width
disp_size_always_16(modrm, is_32a) ==
    IF is_some(modrm)
    THEN LET mod_ == split233(modrm[1])[1]
             rm == split233(modrm[1])[3]
         IN  IF mod_ = 1 THEN "Byte"
             ELSE IF mod_ = 2 THEN "Word"
             ELSE IF mod_ = 0 /\ rm = 6 THEN "Word"
             ELSE "None"
    ELSE "None"

\* let disp_size = ... (lines 116-141)
disp_size(modrm, is_32a) ==
    IF is_some(modrm)
    THEN LET mod_ == split233(modrm[1])[1]
             rm == split233(modrm[1])[3]
         IN  IF is_32a
             THEN IF mod_ = 1 THEN "Byte"
                  ELSE IF mod_ = 2 THEN "DWord"
                  ELSE IF mod_ = 0 /\ rm = 5 THEN "DWord"
                  ELSE "None"
             ELSE IF mod_ = 1 THEN "Byte"
                  ELSE IF mod_ = 2 THEN "Word"
                  ELSE IF mod_ = 0 /\ rm = 6 THEN "Word"
                  ELSE "None"
    ELSE "None"

\* immediate_size with the operand-width case always a Word
immediate_size_always_word(opcode, is_32d) ==
    IF ~lookup_byte(IMMEDIATE_MAP, opcode) THEN "None"
    ELSE IF lookup_byte(IMMEDIATE_BYTE_MAP, opcode) THEN "Byte"
    ELSE IF lookup_byte(IMMEDIATE_WIDE_MAP, opcode) THEN "Word"
    ELSE IF opcode = 194 \/ opcode = 202 THEN "Word"
    ELSE "None"

\* let immediate_size = ... (lines 185-200)
immediate_size(opcode, is_32d) ==
    IF ~lookup_byte(IMMEDIATE_MAP, opcode) THEN "None"
    ELSE IF lookup_byte(IMMEDIATE_BYTE_MAP, opcode) THEN "Byte"
    ELSE IF lookup_byte(IMMEDIATE_WIDE_MAP, opcode)
         THEN (IF is_32d THEN "DWord" ELSE "Word")
    ELSE IF opcode = 194 \/ opcode = 202 THEN "Word"
    ELSE "None"

\* let has_sib = ... (lines 109-113)
has_sib(modrm, is_32a) ==
    IF is_some(modrm)
    THEN is_32a /\ BitAnd(modrm[1], 56) = 32 /\ BitAnd(modrm[1], 192) # 192
    ELSE FALSE

\* has_modrm consulting the one-byte bitmap whether or not opcode2 was read
has_modrm_one_byte_map(opcode, opcode2) ==
    lookup_byte(HAS_MODRM, opcode)

\* let has_modrm = ... (lines 97-101)
has_modrm(opcode, opcode2) ==
    IF is_some(opcode2) THEN lookup_byte(HAS_MODRM2, opcode2[1])
    ELSE lookup_byte(HAS_MODRM, opcode)

\* fn eat(code, is_32c): [ok |-> TRUE, inst, consumed = eater.pos] or EatError
eat(c, is_32c) ==
    LET inst_prefix == next_if(c, 0, {240, 242, 243})
        p1 == Len(inst_prefix)
        addr_prefix == next_if(c, p1, {103})
        p2 == p1 + Len(addr_prefix)
        size_prefix == next_if(c, p2, {102})
        p3 == p2 + Len(size_prefix)
        segm_prefix == next_if(c, p3, {38, 46, 54, 62, 100, 101})
        p4 == p3 + Len(segm_prefix)
        opc == next(c, p4)
        p5 == p4 + 1
    IN
    IF opc = <<>> THEN EatError ELSE
    LET opcode == opc[1] IN
    IF ~lookup_byte(OPCODE_VALIDITY_MAP, opcode) THEN EatError ELSE
    LET opcode2 == IF opcode = 15 THEN next(c, p5) ELSE <<>>
        p6 == p5 + Len(opcode2)
    IN
    IF opcode = 15 /\ opcode2 = <<>> THEN EatError ELSE
    IF is_some(opcode2) /\ ~lookup_byte(OPCODE2_VALIDITY_MAP, opcode2[1]) THEN EatError ELSE
    LET modrm == IF has_modrm(opcode, opcode2) THEN next(c, p6) ELSE <<>>
        p7 == p6 + Len(modrm)
    IN
    IF has_modrm(opcode, opcode2) /\ modrm = <<>> THEN EatError ELSE
    LET is_32a == (is_32c # is_some(addr_prefix))
        is_32d == (is_32c # is_some(size_prefix))
        sib == IF has_sib(modrm, is_32a) THEN next(c, p7) ELSE <<>>
        p8 == p7 + Len(sib)
    IN
    IF has_sib(modrm, is_32a) /\ sib = <<>> THEN EatError ELSE
    LET disp == read_immediate(c, p8, disp_size(modrm, is_32a)) IN
    IF ~disp.ok THEN EatError ELSE
    LET p9 == p8 + Len(disp.imm.bytes)
        imm == read_immediate(c, p9, immediate_size(opcode, is_32d))
    IN
    IF ~imm.ok THEN EatError ELSE
    [ok |-> TRUE,
     consumed |-> p9 + Len(imm.imm.bytes),
     inst |-> [pos |-> 0, is_invalid |-> FALSE, is_32c |-> is_32c,
               inst_prefix |-> inst_prefix, addr_prefix |-> addr_prefix,
               size_prefix |-> size_prefix, segm_prefix |-> segm_prefix,
               opcode |-> opcode, opcode2 |-> opcode2, modrm |-> modrm,
               sib |-> sib, displacement |-> disp.imm, immediate |-> imm.imm]]

\* gen_invalid with the captured byte dropped
gen_invalid_drops_byte(byte) ==
    [pos |-> 0, is_invalid |-> TRUE, is_32c |-> FALSE,
     inst_prefix |-> <<>>, addr_prefix |-> <<>>,
     size_prefix |-> <<>>, segm_prefix |-> <<>>,
     opcode |-> 0, opcode2 |-> <<>>, modrm |-> <<>>,
     sib |-> <<>>, displacement |-> Immediate_None, immediate |-> Immediate_None]

\* fn gen_invalid(byte)
gen_invalid(byte) ==
    [pos |-> 0, is_invalid |-> TRUE, is_32c |-> FALSE,
     inst_prefix |-> <<>>, addr_prefix |-> <<>>,
     size_prefix |-> <<>>, segm_prefix |-> <<>>,
     opcode |-> byte, opcode2 |-> <<>>, modrm |-> <<>>,
     sib |-> <<>>, displacement |-> Immediate_None, immediate |-> Immediate_None]

\* Inst::len without the SIB byte's term
Inst_len_no_sib(inst) ==
    as_usize(is_some(inst.inst_prefix))
    + as_usize(is_some(inst.addr_prefix))
    + as_usize(is_some(inst.size_prefix))
    + as_usize(is_some(inst.segm_prefix))
    + 1
    + as_usize(is_some(inst.opcode2))
    + as_usize(is_some(inst.modrm))
    + Immediate_len(inst.displacement)
    + Immediate_len(inst.immediate)

\* Inst::len without the opcode byte's + 1
Inst_len_no_opcode(inst) ==
    as_usize(is_some(inst.inst_prefix))
    + as_usize(is_some(inst.addr_prefix))
    + as_usize(is_some(inst.size_prefix))
    + as_usize(is_some(inst.segm_prefix))
    + as_usize(is_some(inst.opcode2))
    + as_usize(is_some(inst.modrm))
    + as_usize(is_some(inst.sib))
    + Immediate_len(inst.displacement)
    + Immediate_len(inst.immediate)

\* Inst::len
Inst_len(inst) ==
    as_usize(is_some(inst.inst_prefix))
    + as_usize(is_some(inst.addr_prefix))
    + as_usize(is_some(inst.size_prefix))
    + as_usize(is_some(inst.segm_prefix))
    + 1
    + as_usize(is_some(inst.opcode2))
    + as_usize(is_some(inst.modrm))
    + as_usize(is_some(inst.sib))
    + Immediate_len(inst.displacement)
    + Immediate_len(inst.immediate)

\* ---- impl fmt::Display for Inst and its helpers: texts are strings
\* fn regname(id, is_32d, wide)
regname(id, is_32d, wide) ==
    IF ~wide THEN <<"al", "cl", "dl", "bl", "ah", "ch", "dh", "bh">>[id + 1]
    ELSE IF ~is_32d THEN <<"ax", "cx", "dx", "bx", "sp", "bp", "si", "di">>[id + 1]
    ELSE <<"eax", "ecx", "edx", "ebx", "esp", "ebp", "esi", "edi">>[id + 1]

RM16_TABLE ==
    << "(%bx,%si)", "(%bx,%di)", "(%bp,%si)", "(%bp,%di)",
       "(%si)", "(%di)", "(%bp)", "(%bx)" >>

\* the "{:#x}" of a signed integer given by its little-endian bytes: "0x" and
\* the lower-case hex digits of its two's complement, leading zeros dropped
LowerHex(bytes) ==
    LET digit(n) == <<"0", "1", "2", "3", "4", "5", "6", "7",
                      "8", "9", "a", "b", "c", "d", "e", "f">>[n + 1]
        nib(i) == LET b == bytes[Len(bytes) - ((i - 1) \div 2)]
                  IN  IF i % 2 = 1 THEN b \div 16 ELSE b % 16
        n == 2 * Len(bytes)
        lead == IF \A i \in 1..n : nib(i) = 0 THEN n
                ELSE CHOOSE i \in 1..n : nib(i) # 0 /\ \A j \in 1..(i - 1) : nib(j) = 0
        at(i) == IF i >= lead /\ i <= n THEN digit(nib(i)) ELSE ""
    IN  "0x" \o at(1) \o at(2) \o at(3) \o at(4) \o at(5) \o at(6) \o at(7) \o at(8)

\* impl fmt::Display for SignedImmDisp
SignedImmDisp(imm) ==
    IF imm.kind = "None" THEN "" ELSE "$" \o LowerHex(imm.bytes)

\* impl fmt::Display for DispDisp
DispDisp(imm) ==
    IF imm.kind = "None" THEN "" ELSE LowerHex(imm.bytes)

\* impl fmt::Display for RmDisp
RmDisp_fmt(rm_disp) ==
    LET mod_ == split233(rm_disp.modrm)[1]
        rm == split233(rm_disp.modrm)[3]
    IN  IF mod_ = 3 THEN "%" \o regname(rm, rm_disp.is_32d, rm_disp.wide)
        ELSE IF rm_disp.is_32a THEN "..."
        ELSE IF mod_ = 0 /\ rm = 6 THEN DispDisp(rm_disp.disp)
        ELSE IF mod_ = 0 THEN RM16_TABLE[rm + 1]
        ELSE DispDisp(rm_disp.disp) \o RM16_TABLE[rm + 1]

\* self.modrm.unwrap_or(0)
unwrap_or(o, default) == IF is_some(o) THEN o[1] ELSE default

\* Inst::is_32a, Inst::is_32d
Inst_is_32a(inst) == (inst.is_32c # is_some(inst.addr_prefix))
Inst_is_32d(inst) == (inst.is_32c # is_some(inst.size_prefix))

\* Inst::rm_name
rm_name(inst, wide) ==
    [wide |-> wide, is_32a |-> Inst_is_32a(inst), is_32d |-> Inst_is_32d(inst),
     disp |-> inst.displacement, modrm |-> unwrap_or(inst.modrm, 0)]

\* Inst::reg_name
reg_name(inst, wide) ==
    regname(split233(unwrap_or(inst.modrm, 0))[2], Inst_is_32d(inst), wide)

\* the opname table of the arithmetic arms
OpNames == <<"add", "or", "adc", "sbb", "and", "sub", "xor", "cmp">>

\* impl fmt::Display for Inst (lines 303-347)
Inst_fmt(inst) ==
    LET opcode == inst.opcode IN
    IF inst.is_invalid THEN "<invalid>"
    ELSE IF opcode < 64 /\ BitAnd(opcode, 7) < 6
    THEN LET opname == OpNames[(opcode \div 8) + 1] IN
         IF BitAnd(opcode, 4) = 0
         THEN LET wide == BitAnd(opcode, 1) # 0
                  reg == reg_name(inst, wide)
                  rm == RmDisp_fmt(rm_name(inst, wide))
              IN  IF BitAnd(opcode, 2) = 0
                  THEN opname \o " %" \o reg \o ", " \o rm
                  ELSE opname \o " " \o rm \o ", %" \o reg
         ELSE opname \o " ..."
    ELSE IF opcode = 85 THEN "nop"
    ELSE IF opcode \in {128, 129, 131}
    THEN LET subop == split233(unwrap_or(inst.modrm, 0))[2]
             opname == OpNames[subop + 1]
             imm == SignedImmDisp(inst.immediate)
             rm == RmDisp_fmt(rm_name(inst, opcode # 128))
         IN  opname \o " " \o imm \o ", " \o rm
    ELSE IF opcode \in 136..139
    THEN LET wide == BitAnd(opcode, 1) # 0
             reg == reg_name(inst, wide)
             rm == RmDisp_fmt(rm_name(inst, wide))
         IN  IF BitAnd(opcode, 2) = 0
             THEN "mov %" \o reg \o ", " \o rm
             ELSE "mov " \o rm \o ", %" \o reg
    ELSE "..."

\* The byte values slices are drawn from: opcodes with and without ModRM and
\* immediates, the 0x0F escape, each prefix class, and bytes that are invalid
\* as an opcode; the same values double as ModRM bytes of every mode.
CodeBytes == {0, 4, 5, 15, 38, 64, 65, 102, 103, 128, 194, 240}

\* Longer slices: an optional 0x67 or 0x66 prefix, an opcode (with a ModRM
\* byte of every mode, with r/m and reg fields 0 and 4, and the two
\* direct-address forms, where the opcode takes one), and enough bytes after
\* it for a SIB byte, a 4-byte displacement and a 4-byte immediate.
ModRMBytes ==
    { 64 * m + 8 * r + b : m \in 0..3, r \in {0, 4}, b \in {0, 4} } \cup {5, 6}
EatTail == <<1, 2, 3, 4, 5, 6, 7, 8, 9>>
EatFixtures ==
    { p \o h \o EatTail :
        p \in {<<>>, <<103>>, <<102>>},
        h \in { <<o, m>> : o \in {0, 128, 129}, m \in ModRMBytes }
               \cup { <<176>>, <<184>>, <<194>>, <<202>>, <<234>>, <<64>> }
               \cup { <<15, o2>> : o2 \in {2, 163, 160} } }

RECURSIVE Slices(_)
Slices(n) ==
    IF n = 0 THEN {<<>>}
    ELSE LET shorter == Slices(n - 1)
         IN  shorter \cup {Append(s, b) : s \in {t \in shorter : Len(t) = n - 1}, b \in CodeBytes}

DisIdle ==
    code = <<>> /\ is_32 = FALSE /\ pos = 0 /\ insts = <<>> /\ printed = <<>>

InitDisassemble ==
    /\ op = "disassemble" /\ pc = "loop" /\ err = ""
    /\ nread = 0 /\ src_len = 0
    /\ code \in Slices(MaxCode) \cup EatFixtures
    /\ is_32 \in BOOLEAN
    /\ pos = 0 /\ insts = <<>> /\ printed = <<>>

\* One iteration of `while pos < code.len()` (lines 6-11).
DisassembleStep ==
    /\ op = "disassemble" /\ pc = "loop" /\ pos < Len(code)
    /\ UNCHANGED tblVars
    /\ UNCHANGED <<segVars, neVars, fileVars>>
    /\ LET r == eat(SubSeq(code, pos + 1, Len(code)), is_32)
           decoded == IF r.ok THEN r.inst ELSE gen_invalid(code[pos + 1])
           inst == [decoded EXCEPT !.pos = pos]
       IN  /\ pos' = pos + Inst_len(inst)
           /\ insts' = Append(insts, inst)
    /\ UNCHANGED <<op, pc, err, nread, src_len, overflow_checks, code, is_32, printed>>
    /\ UNCHANGED <<sfVars, relVars, resVars>>
    /\ UNCHANGED modVars
    /\ UNCHANGED nameVars
    /\ UNCHANGED ddVars
    /\ UNCHANGED descVars

\* The loop condition fails; the listing is printed from insts (lines 13-30):
\* println!("   {}", inst) per instruction. The address and hex-dump columns
\* of the listing are not kept.
DisassembleDone ==
    /\ op = "disassemble" /\ pc = "loop" /\ pos >= Len(code)
    /\ UNCHANGED tblVars
    /\ UNCHANGED <<segVars, neVars, fileVars>>
    /\ printed' = [i \in 1..Len(insts) |-> Inst_fmt(insts[i])]
    /\ pc' = "ok"
    /\ UNCHANGED <<op, err, nread, src_len, overflow_checks, code, is_32, pos, insts>>
    /\ UNCHANGED <<sfVars, relVars, resVars>>
    /\ UNCHANGED modVars
    /\ UNCHANGED nameVars
    /\ UNCHANGED ddVars
    /\ UNCHANGED descVars

\* ------------------------- RelocationTable::read (segment_relocations.rs)
\* entry_buf values drawn: address type 3, every low-3-bit flags value and
\* a flags byte with high bits set, a target segment of 1 or 0xFF.
RelocFlagBytes == {0, 1, 2, 3, 4, 5, 6, 7, 253}
RelocBufs ==
    { <<3, fl, 16, 0, 1, 0, 52, 18>> : fl \in RelocFlagBytes }
    \cup { <<3, 0, 16, 0, 255, 0, 7, 0>> }

\* let reloc_type = reloc_flags & 0x07 (one mask bit too many)
reloc_type_mask7(entry_buf) == BitAnd(entry_buf[2], 7)

\* let reloc_type = reloc_flags & 0x03;
reloc_type(entry_buf) == BitAnd(entry_buf[2], 3)

\* let target = match reloc_type { ... } (lines 71-116); the `_` arm is
\* [ok |-> FALSE]
reloc_target(entry_buf) ==
    LET t == reloc_type(entry_buf) IN
    IF t = 0
    THEN [ok |-> TRUE,
          target |-> [kind |-> "Internal", segment |-> entry_buf[5],
                      is_movable |-> (entry_buf[5] = 255),
                      offset_or_ordinal |-> u16_from_le_bytes(<<entry_buf[7], entry_buf[8]>>)]]
    ELSE IF t = 1
    THEN [ok |-> TRUE,
          target |-> [kind |-> "ImportByOrdinal",
                      module_index |-> u16_from_le_bytes(<<entry_buf[5], entry_buf[6]>>),
                      ordinal |-> u16_from_le_bytes(<<entry_buf[7], entry_buf[8]>>)]]
    ELSE IF t = 2
    THEN [ok |-> TRUE,
          target |-> [kind |-> "ImportByName",
                      module_index |-> u16_from_le_bytes(<<entry_buf[5], entry_buf[6]>>),
                      name_offset |-> u16_from_le_bytes(<<entry_buf[7], entry_buf[8]>>)]]
    ELSE [ok |-> FALSE]

\* RelocationEntry { ... } (lines 65-69, 118-124)
RelocationEntry(entry_buf, target) ==
    [address_type |-> entry_buf[1],
     reloc_type |-> reloc_type(entry_buf),
     is_additive |-> (BitAnd(entry_buf[2], 4) # 0),
     segment_offset |-> u16_from_le_bytes(<<entry_buf[3], entry_buf[4]>>),
     target |-> target]

RelIdle == count = -1 /\ rel_entries = <<>> /\ entry_bufs = <<>>

InitReloc ==
    /\ op = "reloc_read" /\ pc = "count" /\ err = ""
    /\ nread = 0 /\ src_len \in 0..(2 + 8 * MaxRelocs)
    /\ RelIdle

\* The count prefix (lines 55-59).
RelocReadCount ==
    /\ op = "reloc_read" /\ pc = "count"
    /\ UNCHANGED tblVars
    /\ UNCHANGED <<segVars, neVars, fileVars>>
    /\ IF nread + 2 > src_len
       THEN /\ pc' = "err" /\ err' = "UnexpectedEof" /\ nread' = src_len
            /\ UNCHANGED count
       ELSE /\ nread' = nread + 2
            /\ \E n \in 0..MaxRelocs :
                  count' = u16_from_le_bytes(<<n % 256, n \div 256>>)
            /\ pc' = "entries" /\ err' = err
    /\ UNCHANGED <<op, src_len, overflow_checks, rel_entries, entry_bufs>>
    /\ UNCHANGED <<sfVars, disVars, resVars>>
    /\ UNCHANGED modVars
    /\ UNCHANGED nameVars
    /\ UNCHANGED ddVars
    /\ UNCHANGED descVars

\* One iteration of `for _ in 0..count` (lines 61-125).
RelocReadEntry ==
    /\ op = "reloc_read" /\ pc = "entries" /\ Len(entry_bufs) < count
    /\ UNCHANGED tblVars
    /\ UNCHANGED <<segVars, neVars, fileVars>>
    /\ IF nread + 8 > src_len
       THEN /\ pc' = "err" /\ err' = "UnexpectedEof" /\ nread' = src_len
            /\ UNCHANGED <<rel_entries, entry_bufs>>
       ELSE /\ nread' = nread + 8
            /\ \E entry_buf \in RelocBufs :
                  /\ entry_bufs' = Append(entry_bufs, entry_buf)
                  /\ LET t == reloc_target(entry_buf) IN
                     IF t.ok
                     THEN /\ rel_entries' = Append(rel_entries, RelocationEntry(entry_buf, t.target))
                          /\ UNCHANGED <<pc, err>>
                     ELSE /\ pc' = "err" /\ err' = "InvalidData"
                          /\ UNCHANGED rel_entries
    /\ UNCHANGED <<op, src_len, overflow_checks, count>>
    /\ UNCHANGED <<sfVars, disVars, resVars>>
    /\ UNCHANGED modVars
    /\ UNCHANGED nameVars
    /\ UNCHANGED ddVars
    /\ UNCHANGED descVars

\* The loop is exhausted: Ok(Self { entries }) (line 127).
RelocReturn ==
    /\ op = "reloc_read" /\ pc = "entries" /\ Len(entry_bufs) >= count
    /\ UNCHANGED tblVars
    /\ UNCHANGED <<segVars, neVars, fileVars>>
    /\ pc' = "ok"
    /\ UNCHANGED <<op, err, nread, src_len, overflow_checks>>
    /\ UNCHANGED <<sfVars, disVars, relVars, resVars>>
    /\ UNCHANGED modVars
    /\ UNCHANGED nameVars
    /\ UNCHANGED ddVars
    /\ UNCHANGED descVars

\* ------------------------------------- NeResourceTable (resource_table.rs)
\* 8-byte resource-type headers drawn: type-id 0 or 0x8003, and
\* num_resources 0..MaxResources
TypeHeaderBufs ==
    { <<t[1], t[2], n, 0, 0, 0, 0, 0>> :
        t \in {<<0, 0>>, <<3, 128>>}, n \in 0..MaxResources }
\* 12-byte resource headers drawn
ResourceBufs == { <<16, 0, 32, 0, 48, 12, 1, 128, 0, 0, 0, 0>> }

\* NeResourceTypeHeader::read applied to the 8 bytes read
NeResourceTypeHeader_read(buf) ==
    [type_id |-> u16_from_le_bytes(<<buf[1], buf[2]>>),
     num_resources |-> u16_from_le_bytes(<<buf[3], buf[4]>>),
     res |-> <<u16_from_le_bytes(<<buf[5], buf[6]>>), u16_from_le_bytes(<<buf[7], buf[8]>>)>>]

\* NeResourceHeader::read applied to the 12 bytes read
NeResourceHeader_read(buf) ==
    [data_offset_shifted |-> u16_from_le_bytes(<<buf[1], buf[2]>>),
     data_length |-> u16_from_le_bytes(<<buf[3], buf[4]>>),
     flags |-> u16_from_le_bytes(<<buf[5], buf[6]>>),
     resource_id |-> u16_from_le_bytes(<<buf[7], buf[8]>>),
     res |-> <<u16_from_le_bytes(<<buf[9], buf[10]>>), u16_from_le_bytes(<<buf[11], buf[12]>>)>>]

\* read_opt's sentinel test on num_resources instead of type_id
is_sentinel_num_resources(header) == header.num_resources = 0

\* NeResourceType::read_opt: if header.type_id == 0 { return Ok(None); }
is_sentinel(header) == header.type_id = 0

\* the sentinel decoder chosen whatever the count
resource_callee_always_variadic(n) == "read_variadic"

\* the decoder NeExecutable::read calls (mod.rs lines 70-74)
resource_callee(n) == IF n = 65535 THEN "read_variadic" ELSE "read"

NoType == [header |-> [type_id |-> 0, num_resources |-> 0, res |-> <<0, 0>>],
           resources |-> <<>>]

ResIdle ==
    /\ num_entries = 0 /\ callee = "" /\ resource_types = <<>>
    /\ type_headers = <<>> /\ cur_type = NoType

InitResource ==
    /\ op = "resource" /\ pc = "dispatch" /\ err = ""
    /\ nread = 0
    /\ src_len \in 0..(2 + 8 * (MaxTypes + 1) + 12 * MaxResources)
    /\ num_entries \in (0..MaxTypes) \cup {65535}
    /\ callee = "" /\ resource_types = <<>>
    /\ type_headers = <<>> /\ cur_type = NoType

\* mod.rs lines 70-74 choose the decoder; it starts with
\* NeResourceTableHeader::read (2 bytes).
ResReadTableHeader ==
    /\ op = "resource" /\ pc = "dispatch"
    /\ UNCHANGED tblVars
    /\ UNCHANGED <<segVars, neVars, fileVars>>
    /\ callee' = resource_callee(num_entries)
    /\ IF nread + 2 > src_len
       THEN pc' = "err" /\ err' = "UnexpectedEof" /\ nread' = src_len
       ELSE pc' = "types" /\ err' = err /\ nread' = nread + 2
    /\ UNCHANGED <<op, src_len, overflow_checks, num_entries, resource_types,
                   type_headers, cur_type>>
    /\ UNCHANGED <<sfVars, disVars, relVars>>
    /\ UNCHANGED modVars
    /\ UNCHANGED nameVars
    /\ UNCHANGED ddVars
    /\ UNCHANGED descVars

\* NeResourceTypeHeader::read at the head of NeResourceType::read / read_opt.
ResReadTypeHeader ==
    /\ op = "resource" /\ pc = "types"
    /\ UNCHANGED tblVars
    /\ UNCHANGED <<segVars, neVars, fileVars>>
    /\ callee = "read" => Len(resource_types) < num_entries
    /\ IF nread + 8 > src_len
       THEN /\ pc' = "err" /\ err' = "UnexpectedEof" /\ nread' = src_len
            /\ UNCHANGED <<resource_types, type_headers, cur_type>>
       ELSE /\ nread' = nread + 8
            /\ \E buf \in TypeHeaderBufs :
                 LET header == NeResourceTypeHeader_read(buf) IN
                 /\ type_headers' = Append(type_headers, header)
                 /\ IF callee = "read_variadic" /\ is_sentinel(header)
                    THEN \* Ok(None): break, Ok(Self { .. })
                         /\ pc' = "ok"
                         /\ UNCHANGED <<err, resource_types, cur_type>>
                    ELSE IF header.num_resources = 0
                    THEN /\ resource_types' =
                              Append(resource_types, [header |-> header, resources |-> <<>>])
                         /\ UNCHANGED <<pc, err, cur_type>>
                    ELSE /\ cur_type' = [header |-> header, resources |-> <<>>]
                         /\ pc' = "resources"
                         /\ UNCHANGED <<err, resource_types>>
    /\ UNCHANGED <<op, src_len, overflow_checks, num_entries, callee>>
    /\ UNCHANGED <<sfVars, disVars, relVars>>
    /\ UNCHANGED modVars
    /\ UNCHANGED nameVars
    /\ UNCHANGED ddVars
    /\ UNCHANGED descVars

\* One NeResource::read of `(0..header.num_resources).map(...)`.
ResReadResource ==
    /\ op = "resource" /\ pc = "resources"
    /\ UNCHANGED tblVars
    /\ UNCHANGED <<segVars, neVars, fileVars>>
    /\ IF nread + 12 > src_len
       THEN /\ pc' = "err" /\ err' = "UnexpectedEof" /\ nread' = src_len
            /\ UNCHANGED <<resource_types, cur_type>>
       ELSE /\ nread' = nread + 12
            /\ err' = err
            /\ \E buf \in ResourceBufs :
                 LET t == [cur_type EXCEPT !.resources =
                               Append(@, [header |-> NeResourceHeader_read(buf)])]
                 IN  IF Len(t.resources) = t.header.num_resources
                     THEN /\ resource_types' = Append(resource_types, t)
                          /\ cur_type' = NoType
                          /\ pc' = "types"
                     ELSE /\ cur_type' = t
                          /\ UNCHANGED <<pc, resource_types>>
    /\ UNCHANGED <<op, src_len, overflow_checks, num_entries, callee, type_headers>>
    /\ UNCHANGED <<sfVars, disVars, relVars>>
    /\ UNCHANGED modVars
    /\ UNCHANGED nameVars
    /\ UNCHANGED ddVars
    /\ UNCHANGED descVars

\* NeResourceTable::read: the counted map is exhausted, Ok(Self { .. }).
ResReturn ==
    /\ op = "resource" /\ pc = "types"
    /\ UNCHANGED tblVars
    /\ UNCHANGED <<segVars, neVars, fileVars>>
    /\ callee = "read" /\ Len(resource_types) >= num_entries
    /\ pc' = "ok"
    /\ UNCHANGED <<op, err, nread, src_len, overflow_checks>>
    /\ UNCHANGED <<sfVars, disVars, relVars, resVars>>
    /\ UNCHANGED modVars
    /\ UNCHANGED nameVars
    /\ UNCHANGED ddVars
    /\ UNCHANGED descVars

\* ------------------------------------------------ NeSegment (segment_table.rs)
\* seek/read events of a seeking reader
Seek(at) == [kind |-> "seek", at |-> at, n |-> 0]
Read(at, n) == [kind |-> "read", at |-> at, n |-> n]

\* segment records drawn: shifted offset 0..2, length and minimum allocation
\* 0, 4 or 0xFFFF, flags 0
SegBufs ==
    { <<o, 0, l[1], l[2], 0, 0, a[1], a[2]>> :
        o \in 0..2, l \in {<<0, 0>>, <<4, 0>>, <<255, 255>>},
        a \in {<<0, 0>>, <<4, 0>>, <<255, 255>>} }
ShiftCounts == {0, 4}            \* file_alignment_shift_count values drawn
SegFileLens == {4, 24, 70000}    \* file lengths drawn

\* NeSegmentHeader::read applied to the 8 bytes read
NeSegmentHeader_read(buf) ==
    [data_offset_shifted |-> u16_from_le_bytes(<<buf[1], buf[2]>>),
     data_length |-> u16_from_le_bytes(<<buf[3], buf[4]>>),
     flags |-> u16_from_le_bytes(<<buf[5], buf[6]>>),
     min_alloc |-> u16_from_le_bytes(<<buf[7], buf[8]>>)]

\* data_offset without the shift
data_offset_unshifted(seg) == seg.header.data_offset_shifted

\* NeSegment::data_offset: (data_offset_shifted as u64) << shift_count
data_offset(seg) == seg.header.data_offset_shifted * Pow2(seg.shift_count)

\* data_length without the zero case
data_length_stored(seg) == seg.header.data_length

\* NeSegment::data_length
data_length(seg) ==
    IF seg.header.data_length = 0 THEN 65536 ELSE seg.header.data_length

\* NeSegment::min_alloc
min_alloc(seg) ==
    IF seg.header.min_alloc = 0 THEN 65536 ELSE seg.header.min_alloc

\* Option<Vec<u8>>; a buffer is kept as its length
NoData == [some |-> FALSE, len |-> 0]

SegIdle == seg_buf = <<>> /\ ne_segment = <<>>
FileIdle == r_pos = 0 /\ io_log = <<>>

InitSegment ==
    /\ op = "segment" /\ pc = "read" /\ err = ""
    /\ nread = 0 /\ src_len \in SegFileLens
    /\ SegIdle /\ FileIdle

\* NeSegment::read(r, shift_count) (lines 24-30).
SegmentRead ==
    /\ op = "segment" /\ pc = "read"
    /\ UNCHANGED tblVars
    /\ IF r_pos + 8 > src_len
       THEN /\ pc' = "err" /\ err' = "UnexpectedEof"
            /\ UNCHANGED <<seg_buf, ne_segment>>
       ELSE /\ \E buf \in SegBufs, shift_count \in ShiftCounts :
                 /\ seg_buf' = buf
                 /\ ne_segment' = [header |-> NeSegmentHeader_read(buf),
                                shift_count |-> shift_count, data |-> NoData]
            /\ pc' = "read_data" /\ err' = err
    /\ io_log' = Append(io_log, Read(r_pos, 8))
    /\ r_pos' = IF r_pos + 8 > src_len THEN src_len ELSE r_pos + 8
    /\ UNCHANGED <<op, nread, src_len, overflow_checks>>
    /\ UNCHANGED <<sfVars, disVars, relVars, resVars, neVars>>
    /\ UNCHANGED modVars
    /\ UNCHANGED nameVars
    /\ UNCHANGED ddVars
    /\ UNCHANGED descVars

\* NeSegment::read_data (lines 32-43).
SegmentReadData ==
    /\ op = "segment" /\ pc = "read_data"
    /\ UNCHANGED tblVars
    /\ IF ne_segment.header.data_offset_shifted = 0
       THEN /\ pc' = "ok"
            /\ UNCHANGED <<err, ne_segment, r_pos, io_log>>
       ELSE /\ io_log' = io_log \o <<Seek(data_offset(ne_segment)),
                                    Read(data_offset(ne_segment), data_length(ne_segment))>>
            /\ IF data_offset(ne_segment) + data_length(ne_segment) > src_len
               THEN /\ pc' = "err" /\ err' = "UnexpectedEof"
                    /\ r_pos' = IF data_offset(ne_segment) > src_len
                                THEN data_offset(ne_segment) ELSE src_len
                    /\ UNCHANGED ne_segment
               ELSE /\ ne_segment' = [ne_segment EXCEPT
                                     !.data = [some |-> TRUE, len |-> data_length(ne_segment)]]
                    /\ r_pos' = data_offset(ne_segment) + data_length(ne_segment)
                    /\ pc' = "ok" /\ err' = err
    /\ UNCHANGED <<op, nread, src_len, overflow_checks, seg_buf>>
    /\ UNCHANGED <<sfVars, disVars, relVars, resVars, neVars>>
    /\ UNCHANGED modVars
    /\ UNCHANGED nameVars
    /\ UNCHANGED ddVars
    /\ UNCHANGED descVars

\* --------------------------------- NeExecutable::read: the two headers
\* the 64 bytes of test_dos_header (mz.rs)
DosFixture ==
    << 77, 90, 212, 1, 6, 0, 0, 0, 32, 0, 0, 0, 255, 255, 0, 0,
       0, 0, 61, 152, 0, 0, 0, 0, 64, 0, 0, 0, 1, 0, 0, 0,
       0, 0, 0, 0, 0, 16, 0, 0, 0, 0, 0, 0, 0, 0, 0, 0,
       0, 0, 0, 0, 0, 16, 0, 0, 0, 0, 0, 0, 0, 6, 0, 0 >>

\* the DosHeader test_dos_header expects
DosExpected ==
    [magic |-> 23117, cblp |-> 468, cp |-> 6, crlc |-> 0, cparhdr |-> 32,
     minalloc |-> 0, maxalloc |-> 65535, ss |-> 0, sp |-> 0, csum |-> 38973,
     ip |-> 0, cs |-> 0, lfarlc |-> 64, ovno |-> 0, res |-> <<1, 0, 0, 0>>,
     oemid |-> 4096, oeminfo |-> 0,
     res2 |-> <<0, 0, 0, 0, 0, 0, 4096, 0, 0, 0>>, lfanew |-> 1536]

\* the 64 bytes of test_ne_header (header.rs)
NeFixture ==
    << 78, 69, 5, 10, 108, 1, 2, 0, 70, 69, 82, 71, 18, 3, 2, 0,
       0, 16, 0, 80, 16, 0, 1, 0, 0, 0, 2, 0, 9, 0, 1, 0,
       28, 0, 64, 0, 144, 0, 84, 1, 96, 1, 98, 1, 110, 7, 0, 0,
       0, 0, 8, 0, 255, 255, 2, 8, 0, 0, 0, 0, 0, 0, 0, 3 >>

\* the NeHeader test_ne_header expects
NeExpected ==
    [magic |-> <<78, 69>>, major_linker_version |-> 5,
     minor_linker_version |-> 10, entry_table_offset |-> 364,
     entry_table_length |-> 2, file_load_crc |-> 1196574022, flags |-> 786,
     auto_data_segment_index |-> 2, init_heap_size |-> 4096,
     init_stack_size |-> 20480, entry_point |-> 65552, init_stack |-> 131072,
     segment_count |-> 9, module_references |-> 1,
     non_resident_names_size |-> 28, segment_table_offset |-> 64,
     resource_table_offset |-> 144, resident_names_table_offset |-> 340,
     module_reference_table_offset |-> 352, import_name_table_offset |-> 354,
     non_resident_names_table_offset |-> 1902, movable_entry_point_count |-> 0,
     file_alignment_shift_count |-> 8, resource_table_entries |-> 65535,
     target_os |-> 2, os2_exe_flags |-> 8, return_thunk_offset |-> 0,
     segment_reference_thunk_offset |-> 0, min_code_swap |-> 0,
     expected_win_ver |-> <<0, 3>>]

\* headers drawn: the fixture, and the fixture with one byte replaced
DosBufs == {DosFixture} \cup { [DosFixture EXCEPT ![p] = 127] : p \in 1..64 }
NeBufs == {NeFixture} \cup { [NeFixture EXCEPT ![p] = 127] : p \in 1..64 }
NeFileLens == {0, 64, 2048, 40000}    \* file lengths drawn

\* the closures of DosHeader::read and NeHeader::read; at counts from 0
get_u8(buf, at) == buf[at + 1]

\* get_u16 reading the two bytes high byte first
get_u16_be(buf, at) == 256 * buf[at + 1] + buf[at + 2]

get_u16(buf, at) == u16_from_le_bytes(<<buf[at + 1], buf[at + 2]>>)

get_u32(buf, at) ==
    buf[at + 1] + 256 * buf[at + 2] + 65536 * buf[at + 3]
        + 16777216 * buf[at + 4]

\* DosHeader::read applied to the 64 bytes read
DosHeader_read(buf) ==
    [magic |-> get_u16(buf, 0), cblp |-> get_u16(buf, 2),
     cp |-> get_u16(buf, 4), crlc |-> get_u16(buf, 6),
     cparhdr |-> get_u16(buf, 8), minalloc |-> get_u16(buf, 10),
     maxalloc |-> get_u16(buf, 12), ss |-> get_u16(buf, 14),
     sp |-> get_u16(buf, 16), csum |-> get_u16(buf, 18),
     ip |-> get_u16(buf, 20), cs |-> get_u16(buf, 22),
     lfarlc |-> get_u16(buf, 24), ovno |-> get_u16(buf, 26),
     res |-> <<get_u16(buf, 28), get_u16(buf, 30), get_u16(buf, 32),
               get_u16(buf, 34)>>,
     oemid |-> get_u16(buf, 36), oeminfo |-> get_u16(buf, 38),
     res2 |-> <<get_u16(buf, 40), get_u16(buf, 42), get_u16(buf, 44),
                get_u16(buf, 46), get_u16(buf, 48), get_u16(buf, 50),
                get_u16(buf, 52), get_u16(buf, 54), get_u16(buf, 56),
                get_u16(buf, 58)>>,
     lfanew |-> get_u32(buf, 60)]

\* check_magic comparing with the word of 'M','Z' read high byte first
DosHeader_check_magic_swapped(h) ==
    IF h.magic # 19802 THEN [ok |-> FALSE, kind |-> "InvalidInput"]
    ELSE [ok |-> TRUE, kind |-> ""]

\* DosHeader::check_magic: magic != 0x5A4D
DosHeader_check_magic(h) ==
    IF h.magic # 23117 THEN [ok |-> FALSE, kind |-> "InvalidInput"]
    ELSE [ok |-> TRUE, kind |-> ""]

\* NeHeader::read applied to the 64 bytes read
NeHeader_read(buf) ==
    [magic |-> <<get_u8(buf, 0), get_u8(buf, 1)>>,
     major_linker_version |-> get_u8(buf, 2),
     minor_linker_version |-> get_u8(buf, 3),
     entry_table_offset |-> get_u16(buf, 4),
     entry_table_length |-> get_u16(buf, 6),
     file_load_crc |-> get_u32(buf, 8),
     flags |-> get_u16(buf, 12),
     auto_data_segment_index |-> get_u16(buf, 14),
     init_heap_size |-> get_u16(buf, 16),
     init_stack_size |-> get_u16(buf, 18),
     entry_point |-> get_u32(buf, 20),
     init_stack |-> get_u32(buf, 24),
     segment_count |-> get_u16(buf, 28),
     module_references |-> get_u16(buf, 30),
     non_resident_names_size |-> get_u16(buf, 32),
     segment_table_offset |-> get_u16(buf, 34),
     resource_table_offset |-> get_u16(buf, 36),
     resident_names_table_offset |-> get_u16(buf, 38),
     module_reference_table_offset |-> get_u16(buf, 40),
     import_name_table_offset |-> get_u16(buf, 42),
     non_resident_names_table_offset |-> get_u32(buf, 44),
     movable_entry_point_count |-> get_u16(buf, 48),
     file_alignment_shift_count |-> get_u16(buf, 50),
     resource_table_entries |-> get_u16(buf, 52),
     target_os |-> get_u8(buf, 54),
     os2_exe_flags |-> get_u8(buf, 55),
     return_thunk_offset |-> get_u16(buf, 56),
     segment_reference_thunk_offset |-> get_u16(buf, 58),
     min_code_swap |-> get_u16(buf, 60),
     expected_win_ver |-> <<get_u8(buf, 62), get_u8(buf, 63)>>]

\* NeHeader::check_magic: magic != *b"NE"
NeHeader_check_magic(h) ==
    IF h.magic # <<78, 69>> THEN [ok |-> FALSE, kind |-> "InvalidInput"]
    ELSE [ok |-> TRUE, kind |-> ""]

NeIdle == dos_buf = <<>> /\ ne_buf = <<>> /\ dos_header = <<>> /\ ne_header = <<>>

InitNeRead ==
    /\ op = "ne_read" /\ pc = "dos_header" /\ err = ""
    /\ nread = 0 /\ src_len \in NeFileLens
    /\ NeIdle /\ FileIdle

\* NeExecutable::read, line 42: DosHeader::read(file)?
NeReadDosHeader ==
    /\ op = "ne_read" /\ pc = "dos_header"
    /\ UNCHANGED tblVars
    /\ IF r_pos + 64 > src_len
       THEN /\ pc' = "err" /\ err' = "UnexpectedEof"
            /\ UNCHANGED <<dos_buf, dos_header>>
       ELSE /\ \E buf \in DosBufs :
                 dos_buf' = buf /\ dos_header' = DosHeader_read(buf)
            /\ pc' = "dos_magic" /\ err' = err
    /\ io_log' = Append(io_log, Read(r_pos, 64))
    /\ r_pos' = IF r_pos + 64 > src_len THEN src_len ELSE r_pos + 64
    /\ UNCHANGED <<op, nread, src_len, overflow_checks, ne_buf, ne_header>>
    /\ UNCHANGED <<sfVars, disVars, relVars, resVars, segVars>>
    /\ UNCHANGED modVars
    /\ UNCHANGED nameVars
    /\ UNCHANGED ddVars
    /\ UNCHANGED descVars

\* NeExecutable::read, lines 45-50: the match on dos_header.check_magic()
NeCheckDosMagic ==
    /\ op = "ne_read" /\ pc = "dos_magic"
    /\ UNCHANGED tblVars
    /\ IF DosHeader_check_magic(dos_header).ok
       THEN pc' = "seek_ne" /\ err' = err
       ELSE pc' = "err" /\ err' = DosHeader_check_magic(dos_header).kind
    /\ UNCHANGED <<op, nread, src_len, overflow_checks>>
    /\ UNCHANGED <<sfVars, disVars, relVars, resVars, segVars, neVars, fileVars>>
    /\ UNCHANGED modVars
    /\ UNCHANGED nameVars
    /\ UNCHANGED ddVars
    /\ UNCHANGED descVars

\* NeExecutable::read, lines 52-54: file.seek(SeekFrom::Start(lfanew))?
NeSeekHeader ==
    /\ op = "ne_read" /\ pc = "seek_ne"
    /\ UNCHANGED tblVars
    /\ r_pos' = dos_header.lfanew
    /\ io_log' = Append(io_log, Seek(dos_header.lfanew))
    /\ pc' = "ne_header"
    /\ UNCHANGED <<op, err, nread, src_len, overflow_checks>>
    /\ UNCHANGED <<sfVars, disVars, relVars, resVars, segVars, neVars>>
    /\ UNCHANGED modVars
    /\ UNCHANGED nameVars
    /\ UNCHANGED ddVars
    /\ UNCHANGED descVars

\* NeExecutable::read, line 56: NeHeader::read(file)?
NeReadNeHeader ==
    /\ op = "ne_read" /\ pc = "ne_header"
    /\ UNCHANGED tblVars
    /\ IF r_pos + 64 > src_len
       THEN /\ pc' = "err" /\ err' = "UnexpectedEof"
            /\ UNCHANGED <<ne_buf, ne_header>>
       ELSE /\ \E buf \in NeBufs :
                 ne_buf' = buf /\ ne_header' = NeHeader_read(buf)
            /\ pc' = "ne_magic" /\ err' = err
    /\ io_log' = Append(io_log, Read(r_pos, 64))
    /\ r_pos' = IF r_pos + 64 > src_len
                THEN (IF r_pos > src_len THEN r_pos ELSE src_len)
                ELSE r_pos + 64
    /\ UNCHANGED <<op, nread, src_len, overflow_checks, dos_buf, dos_header>>
    /\ UNCHANGED <<sfVars, disVars, relVars, resVars, segVars>>
    /\ UNCHANGED modVars
    /\ UNCHANGED nameVars
    /\ UNCHANGED ddVars
    /\ UNCHANGED descVars

\* NeExecutable::read, line 57: ne_header.check_magic()?; the table reads
\* that follow start from pc = "tables"
NeCheckNeMagic ==
    /\ op = "ne_read" /\ pc = "ne_magic"
    /\ UNCHANGED tblVars
    /\ IF NeHeader_check_magic(ne_header).ok
       THEN pc' = "tables" /\ err' = err
       ELSE pc' = "err" /\ err' = NeHeader_check_magic(ne_header).kind
    /\ UNCHANGED <<op, nread, src_len, overflow_checks>>
    /\ UNCHANGED <<sfVars, disVars, relVars, resVars, segVars, neVars, fileVars>>
    /\ UNCHANGED modVars
    /\ UNCHANGED nameVars
    /\ UNCHANGED ddVars
    /\ UNCHANGED descVars

\* ------------------- NeExecutable::read after the headers (mod.rs 59-120)
\* Each call that ends in `?` is one step. What a table decoder does with the
\* bytes it reads is modelled where that decoder is; here a call is its seek,
\* the bytes it reads and the result it returns, which depends on the file:
\* the result is drawn from the results the decoder can return.
TblIdle ==
    /\ stages = <<>> /\ segment_entries = <<>> /\ seg_i = 0
    /\ relocs_per_segment = <<>> /\ exe = "none"

\* the 8-byte segment records drawn: shifted offset 0 or 8, length 16, flags
\* with and without 0x0008
TblSegBufs == { <<o, 0, 16, 0, f, 0, 0, 0>> : o \in {0, 8}, f \in {0, 8} }
TblFileLens == {1604, 2050, 4096}    \* file lengths drawn

\* the order of the table reads that is the other way round for the
\* non-resident names: both name tables before the module references
next_table_names_first(what) ==
    CASE what = "segment_table" -> "resource_table"
      [] what = "resource_table" -> "resident_names"
      [] what = "resident_names" -> "nonresident_names"
      [] what = "nonresident_names" -> "module_references"
      [] what = "module_references" -> "import_names"
      [] what = "import_names" -> "entry_table"
      [] what = "entry_table" -> "segment_data"

\* the statement order of lines 59-96: what is read after what
next_table(what) ==
    CASE what = "segment_table" -> "resource_table"
      [] what = "resource_table" -> "resident_names"
      [] what = "resident_names" -> "module_references"
      [] what = "module_references" -> "import_names"
      [] what = "import_names" -> "entry_table"
      [] what = "entry_table" -> "nonresident_names"
      [] what = "nonresident_names" -> "segment_data"

\* the stored offsets taken from file position 0, lfanew left out
table_offset_from_zero(what) ==
    CASE what = "segment_table" -> ne_header.segment_table_offset
      [] what = "resource_table" -> ne_header.resource_table_offset
      [] what = "resident_names" -> ne_header.resident_names_table_offset
      [] what = "module_references" -> ne_header.module_reference_table_offset
      [] what = "import_names" -> ne_header.import_name_table_offset + 1
      [] what = "entry_table" -> ne_header.entry_table_offset
      [] what = "nonresident_names" -> ne_header.non_resident_names_table_offset

\* the offsets sought (lines 59-61, 67-69, 76-77, 80-81, 85-86, 88-89, 94-95);
\* the one module-reference entry drawn holds name offset 1
table_offset(what) ==
    LET lfanew == dos_header.lfanew IN
    CASE what = "segment_table" -> lfanew + ne_header.segment_table_offset
      [] what = "resource_table" -> lfanew + ne_header.resource_table_offset
      [] what = "resident_names" -> lfanew + ne_header.resident_names_table_offset
      [] what = "module_references" -> lfanew + ne_header.module_reference_table_offset
      [] what = "import_names" -> lfanew + ne_header.import_name_table_offset + 1
      [] what = "entry_table" -> lfanew + ne_header.entry_table_offset
      [] what = "nonresident_names" -> ne_header.non_resident_names_table_offset

\* the numbers of bytes a successful read takes, for the tables drawn: 8 per
\* segment, a resource table of the shift count and the zero type-id record,
\* a resident-name table of the terminating 0, 2 per module reference, one
\* 6-letter module name, an entry table of one bundle header, a
\* non-resident-name table of the terminating 0 or of
\* non_resident_names_size bytes
table_lens(what) ==
    CASE what = "segment_table" -> {8 * ne_header.segment_count}
      [] what = "resource_table" -> {10}
      [] what = "resident_names" -> {1}
      [] what = "module_references" -> {2 * ne_header.module_references}
      [] what = "import_names" -> {7}
      [] what = "entry_table" -> {2}
      [] what = "nonresident_names" -> {1, ne_header.non_resident_names_size}

\* what EntryTable::read_sf(r, cb) can do for a table length cb of 1 or 2:
\* with cb = 1 the 2-byte bundle header is read and `bytes_remaining -= 2`
\* panics under overflow checks and wraps without them; with cb = 2 a bundle
\* with a body exceeds the budget
read_sf_results(cb, checks) ==
    IF cb = 1 THEN (IF checks THEN {"panic", "UnexpectedEof"}
                    ELSE {"ok", "UnexpectedEof"})
    ELSE {"ok", "UnexpectedEof", "InvalidData"}

\* the results a table decoder can return
table_results(what) ==
    CASE what = "segment_table" -> {"ok"}
      [] what = "resource_table" -> {"ok", "UnexpectedEof"}
      [] what = "resident_names" -> {"ok", "UnexpectedEof"}
      [] what = "module_references" -> {"ok"}
      [] what = "import_names" -> {"ok", "UnexpectedEof"}
      [] what = "entry_table" ->
            read_sf_results(ne_header.entry_table_length, overflow_checks)
      [] what = "nonresident_names" -> {"ok", "UnexpectedEof"}

\* segment.header.flags & 0x0008 != 0 read as always set
has_relocation_table_always(seg) == TRUE

\* segment.header.flags & 0x0008 != 0 read as never set
has_relocation_table_never(seg) == FALSE

\* line 101: segment.header.flags & 0x0008 != 0
has_relocation_table(seg) == BitAnd(seg.header.flags, 8) # 0

Stage(what, seg, at, seek) == [what |-> what, seg |-> seg, at |-> at, seek |-> seek]

InitNeTables ==
    /\ op = "ne_tables" /\ pc = "segment_table" /\ err = ""
    /\ nread = 0 /\ src_len \in TblFileLens
    /\ dos_buf = DosFixture /\ dos_header = DosHeader_read(DosFixture)
    /\ \E n \in 0..MaxSegs, cb \in {1, 2} :
          /\ ne_buf = [NeFixture EXCEPT ![29] = n, ![7] = cb]
          /\ ne_header = NeHeader_read([NeFixture EXCEPT ![29] = n, ![7] = cb])
    /\ r_pos = 1600
    /\ io_log = <<Read(0, 64), Seek(1536), Read(1536, 64)>>
    /\ stages = <<>> /\ segment_entries = <<>> /\ seg_i = 1
    /\ relocs_per_segment = <<>> /\ exe = "none"

\* A seek to a table and the call of its decoder, with the `?` after it.
TableRead(what) ==
    LET at == table_offset(what) IN
    /\ op = "ne_tables" /\ pc = what
    /\ stages' = Append(stages, Stage(what, 0, at, TRUE))
    /\ \E n \in table_lens(what) :
       \E res \in (IF at + n > src_len THEN {"UnexpectedEof"} ELSE table_results(what)) :
          /\ io_log' = io_log \o <<Seek(at), Read(at, n)>>
          /\ IF res = "ok"
             THEN pc' = next_table(what) /\ err' = err /\ r_pos' = at + n
             ELSE IF res = "panic"
             THEN pc' = "panic" /\ err' = err /\ r_pos' = at + n
             ELSE /\ pc' = "err" /\ err' = res
                  /\ r_pos' = IF res = "UnexpectedEof"
                              THEN (IF at > src_len THEN at ELSE src_len)
                              ELSE at + n
    /\ UNCHANGED <<op, nread, src_len, overflow_checks, seg_i, relocs_per_segment, exe>>
    /\ UNCHANGED <<sfVars, disVars, relVars, resVars, segVars, neVars>>
    /\ UNCHANGED modVars
    /\ UNCHANGED nameVars
    /\ UNCHANGED ddVars
    /\ UNCHANGED descVars

\* lines 59-65: the segment table, segment_count NeSegment::read calls
NeTblSegmentTable ==
    /\ TableRead("segment_table")
    /\ IF pc' = "err" THEN UNCHANGED segment_entries
       ELSE \E bufs \in [1..ne_header.segment_count -> TblSegBufs] :
               segment_entries' =
                   [i \in 1..ne_header.segment_count |->
                       [header |-> NeSegmentHeader_read(bufs[i]),
                        shift_count |-> ne_header.file_alignment_shift_count,
                        data |-> NoData]]

\* lines 67-74: the resource table
NeTblResourceTable == TableRead("resource_table") /\ UNCHANGED segment_entries

\* lines 76-78: the resident-name table
NeTblResidentNames == TableRead("resident_names") /\ UNCHANGED segment_entries

\* lines 80-83: the module-reference table
NeTblModuleReferences == TableRead("module_references") /\ UNCHANGED segment_entries

\* lines 85-86: module_reference_table.read_names
NeTblImportNames == TableRead("import_names") /\ UNCHANGED segment_entries

\* lines 88-92: the entry table, EntryTable::read_sf
NeTblEntryTable == TableRead("entry_table") /\ UNCHANGED segment_entries

\* lines 94-96: the non-resident-name table
NeTblNonresidentNames == TableRead("nonresident_names") /\ UNCHANGED segment_entries

\* line 100: segment.read_data(file)? for the segment the loop is at.
NeTblSegmentData ==
    /\ op = "ne_tables" /\ pc = "segment_data" /\ seg_i <= Len(segment_entries)
    /\ LET seg == segment_entries[seg_i]
           at == data_offset(seg)
           n == data_length(seg)
           after == IF has_relocation_table(seg) THEN "relocations" ELSE "segment_data"
       IN  IF seg.header.data_offset_shifted = 0
           THEN /\ stages' = Append(stages, Stage("segment_data", seg_i, r_pos, FALSE))
                /\ pc' = after
                /\ seg_i' = IF has_relocation_table(seg) THEN seg_i ELSE seg_i + 1
                /\ UNCHANGED <<err, r_pos, io_log, segment_entries>>
           ELSE /\ stages' = Append(stages, Stage("segment_data", seg_i, at, TRUE))
                /\ io_log' = io_log \o <<Seek(at), Read(at, n)>>
                /\ IF at + n > src_len
                   THEN /\ pc' = "err" /\ err' = "UnexpectedEof"
                        /\ r_pos' = IF at > src_len THEN at ELSE src_len
                        /\ UNCHANGED <<seg_i, segment_entries>>
                   ELSE /\ segment_entries' =
                              [segment_entries EXCEPT
                                 ![seg_i].data = [some |-> TRUE, len |-> n]]
                        /\ r_pos' = at + n
                        /\ pc' = after /\ err' = err
                        /\ seg_i' = IF has_relocation_table(seg) THEN seg_i ELSE seg_i + 1
    /\ UNCHANGED <<op, nread, src_len, overflow_checks, relocs_per_segment, exe>>
    /\ UNCHANGED <<sfVars, disVars, relVars, resVars, segVars, neVars>>
    /\ UNCHANGED modVars
    /\ UNCHANGED nameVars
    /\ UNCHANGED ddVars
    /\ UNCHANGED descVars

\* lines 102-103: RelocationTable::read(file)? from where the reader is, and
\* the push; the tables drawn hold no record or one
NeTblRelocations ==
    /\ op = "ne_tables" /\ pc = "relocations"
    /\ stages' = Append(stages, Stage("relocations", seg_i, r_pos, FALSE))
    /\ \E n \in {2, 10} :
       \E res \in (IF r_pos + n > src_len THEN {"UnexpectedEof"}
                   ELSE {"ok", "UnexpectedEof", "InvalidData"}) :
          /\ io_log' = Append(io_log, Read(r_pos, n))
          /\ IF res = "ok"
             THEN /\ relocs_per_segment' = Append(relocs_per_segment, seg_i)
                  /\ seg_i' = seg_i + 1
                  /\ pc' = "segment_data" /\ err' = err /\ r_pos' = r_pos + n
             ELSE /\ pc' = "err" /\ err' = res
                  /\ r_pos' = IF res = "UnexpectedEof"
                              THEN (IF r_pos > src_len THEN r_pos ELSE src_len)
                              ELSE r_pos + n
                  /\ UNCHANGED <<relocs_per_segment, seg_i>>
    /\ UNCHANGED <<op, nread, src_len, overflow_checks, segment_entries, exe>>
    /\ UNCHANGED <<sfVars, disVars, relVars, resVars, segVars, neVars>>
    /\ UNCHANGED modVars
    /\ UNCHANGED nameVars
    /\ UNCHANGED ddVars
    /\ UNCHANGED descVars

\* lines 108-118: the loop is over, Ok(Self { .. })
NeTblReturn ==
    /\ op = "ne_tables" /\ pc = "segment_data" /\ seg_i > Len(segment_entries)
    /\ exe' = "built" /\ pc' = "ok"
    /\ UNCHANGED <<op, err, nread, src_len, overflow_checks>>
    /\ UNCHANGED <<stages, segment_entries, seg_i, relocs_per_segment>>
    /\ UNCHANGED <<sfVars, disVars, relVars, resVars, segVars, neVars, fileVars>>
    /\ UNCHANGED modVars
    /\ UNCHANGED nameVars
    /\ UNCHANGED ddVars
    /\ UNCHANGED descVars

\* ------------- ModuleReferenceTable (module_reference_table.rs, mod.rs 80-86)
\* The reader stands at the module-reference table, file position 0; the
\* import-name table begins behind it, at mr_offset, and its bytes are
\* mr_file. The name offsets drawn are 0, 1 and 3.
ModRefOffsets == {0, 1, 3}
ImportNameAreas ==
    { <<0, 1, 65, 2, 66, 67>>, <<2, 75, 69, 1, 85, 0>>, <<1, 0, 3, 1, 2, 3>> }

\* the byte of the file at position at: the module-reference table read so
\* far, then 0 up to mr_offset, then the import names
file_byte(at) ==
    IF at >= mr_offset /\ at < mr_offset + Len(mr_file) THEN mr_file[at - mr_offset + 1]
    ELSE IF at < 2 * Len(mr_bufs) THEN mr_bufs[(at \div 2) + 1][(at % 2) + 1]
    ELSE 0

\* the bytes of the file at positions at .. at + n - 1
file_bytes(at, n) == [k \in 1..n |-> file_byte(at + k - 1)]

\* ModuleReferenceEntryHeader::read applied to the 2 bytes read
ModuleReferenceEntryHeader_read(buf) == [offset |-> u16_from_le_bytes(buf)]

\* ModuleReferenceEntry::read applied to the 2 bytes read
ModuleReferenceEntry_read(buf) ==
    [header |-> ModuleReferenceEntryHeader_read(buf), name |-> <<>>]

\* the position read_name seeks to, lfanew-relative base left out
read_name_at_no_base(entry, offset) == entry.header.offset

\* line 39: offset + self.header.offset as u64
read_name_at(entry, offset) == offset + entry.header.offset

ModIdle ==
    /\ mr_num = 0 /\ mr_offset = 0 /\ mr_file = <<>> /\ mr_entries = <<>>
    /\ mr_bufs = <<>> /\ mr_i = 0

InitModRef ==
    /\ op = "modref" /\ pc = "read" /\ err = ""
    /\ nread = 0
    /\ mr_num \in 0..MaxModRefs
    /\ mr_offset \in {2 * MaxModRefs, 2 * MaxModRefs + 1}
    /\ mr_file \in ImportNameAreas
    /\ src_len \in {3, mr_offset + 3, mr_offset + 6}
    /\ r_pos = 0 /\ io_log = <<>>
    /\ mr_entries = <<>> /\ mr_bufs = <<>> /\ mr_i = 1

\* One ModuleReferenceEntry::read(r) of `(0..num).map(..)` (lines 10-12, 32-36).
ModRefReadEntry ==
    /\ op = "modref" /\ pc = "read" /\ Len(mr_entries) < mr_num
    /\ io_log' = Append(io_log, Read(r_pos, 2))
    /\ IF r_pos + 2 > src_len
       THEN /\ pc' = "err" /\ err' = "UnexpectedEof"
            /\ r_pos' = IF r_pos > src_len THEN r_pos ELSE src_len
            /\ UNCHANGED <<mr_entries, mr_bufs>>
       ELSE /\ \E o \in ModRefOffsets :
                 /\ mr_bufs' = Append(mr_bufs, <<o, 0>>)
                 /\ mr_entries' = Append(mr_entries, ModuleReferenceEntry_read(<<o, 0>>))
            /\ r_pos' = r_pos + 2
            /\ UNCHANGED <<pc, err>>
    /\ UNCHANGED <<op, nread, src_len, overflow_checks, mr_num, mr_offset, mr_file, mr_i>>
    /\ UNCHANGED <<sfVars, disVars, relVars, resVars, segVars, neVars, tblVars>>
    /\ UNCHANGED nameVars
    /\ UNCHANGED ddVars
    /\ UNCHANGED descVars

\* Ok(Self { entries }) (line 13); mod.rs 85 computes int_offset.
ModRefReadReturn ==
    /\ op = "modref" /\ pc = "read" /\ Len(mr_entries) >= mr_num
    /\ pc' = "read_names"
    /\ UNCHANGED <<op, err, nread, src_len, overflow_checks, modVars, fileVars>>
    /\ UNCHANGED <<sfVars, disVars, relVars, resVars, segVars, neVars, tblVars>>
    /\ UNCHANGED nameVars
    /\ UNCHANGED ddVars
    /\ UNCHANGED descVars

\* One entry.read_name(r, offset)? of read_names (lines 17-19, 38-48).
\* A failed read_exact leaves the resized name's bytes unspecified; the table
\* is dropped with the error, and the model keeps the zeros of resize.
ModRefReadName ==
    /\ op = "modref" /\ pc = "read_names" /\ mr_i <= Len(mr_entries)
    /\ LET at == read_name_at(mr_entries[mr_i], mr_offset) IN
       IF at + 1 > src_len
       THEN /\ io_log' = io_log \o <<Seek(at), Read(at, 1)>>
            /\ pc' = "err" /\ err' = "UnexpectedEof"
            /\ r_pos' = IF at > src_len THEN at ELSE src_len
            /\ UNCHANGED <<mr_entries, mr_i>>
       ELSE LET len == file_bytes(at, 1)[1] IN
            /\ io_log' = io_log \o <<Seek(at), Read(at, 1), Read(at + 1, len)>>
            /\ IF at + 1 + len > src_len
               THEN /\ pc' = "err" /\ err' = "UnexpectedEof"
                    /\ r_pos' = src_len
                    /\ mr_entries' = [mr_entries EXCEPT
                                        ![mr_i].name = [k \in 1..len |-> 0]]
                    /\ UNCHANGED mr_i
               ELSE /\ mr_entries' = [mr_entries EXCEPT
                                        ![mr_i].name = file_bytes(at + 1, len)]
                    /\ r_pos' = at + 1 + len
                    /\ mr_i' = mr_i + 1
                    /\ UNCHANGED <<pc, err>>
    /\ UNCHANGED <<op, nread, src_len, overflow_checks, mr_num, mr_offset, mr_file, mr_bufs>>
    /\ UNCHANGED <<sfVars, disVars, relVars, resVars, segVars, neVars, tblVars>>
    /\ UNCHANGED nameVars
    /\ UNCHANGED ddVars
    /\ UNCHANGED descVars

\* the loop of read_names is over: Ok(()) (line 20)
ModRefNamesReturn ==
    /\ op = "modref" /\ pc = "read_names" /\ mr_i > Len(mr_entries)
    /\ pc' = "ok"
    /\ UNCHANGED <<op, err, nread, src_len, overflow_checks, modVars, fileVars>>
    /\ UNCHANGED <<sfVars, disVars, relVars, resVars, segVars, neVars, tblVars>>
    /\ UNCHANGED nameVars
    /\ UNCHANGED ddVars
    /\ UNCHANGED descVars

\* ------- name tables (resident_name_table.rs, nonresident_name_table.rs)
\* ResidentNameTable and NonresidentNameTable decode alike; nt_table says
\* which one runs. Name bytes drawn include 0; index words drawn are 1 and
\* 0x0100.
NameTables == {"ResidentNameTable", "NonresidentNameTable"}
NameBytes == {0, 65}
NameIndexBufs == {<<1, 0>>, <<0, 1>>}

\* `if len == 0` never taken
is_last_name_never(len) == FALSE

\* ResidentNameEntry::read line 46, NonresidentNameEntry::read line 44:
\* if len == 0 { return Ok(None); }
is_last_name(len) == len = 0

\* Self { name, index } of lines 49-59 (47-57)
NameEntry(name, buf) == [name |-> name, index |-> u16_from_le_bytes(buf)]

NameIdle == nt_table = "" /\ nt_entries = <<>> /\ nt_stream = <<>>

InitNames ==
    /\ op = "names" /\ pc = "loop" /\ err = ""
    /\ nread = 0 /\ src_len \in 0..MaxStream
    /\ nt_table \in NameTables
    /\ nt_entries = <<>> /\ nt_stream = <<>>

\* One `while let Some(entry) = ResidentNameEntry::read(r)?` iteration
\* (resident_name_table.rs 28-31, 41-61): the length byte, the name, the
\* index word; Ok(None) ends the loop and read returns Ok(Self { entries }).
NameReadEntry ==
    /\ op = "names" /\ pc = "loop"
    /\ IF nread + 1 > src_len
       THEN /\ pc' = "err" /\ err' = "UnexpectedEof" /\ nread' = src_len
            /\ UNCHANGED <<nt_entries, nt_stream>>
       ELSE \E len \in 0..MaxNameLen :
            IF is_last_name(len)
            THEN /\ pc' = "ok" /\ err' = err /\ nread' = nread + 1
                 /\ nt_stream' = Append(nt_stream, len)
                 /\ UNCHANGED nt_entries
            ELSE IF nread + 1 + len > src_len
            THEN /\ pc' = "err" /\ err' = "UnexpectedEof" /\ nread' = src_len
                 /\ nt_stream' = Append(nt_stream, len)
                 /\ UNCHANGED nt_entries
            ELSE \E name \in [1..len -> NameBytes] :
                 IF nread + 1 + len + 2 > src_len
                 THEN /\ pc' = "err" /\ err' = "UnexpectedEof" /\ nread' = src_len
                      /\ nt_stream' = nt_stream \o <<len>> \o name
                      /\ UNCHANGED nt_entries
                 ELSE \E buf \in NameIndexBufs :
                      /\ nt_entries' = Append(nt_entries, NameEntry(name, buf))
                      /\ nt_stream' = nt_stream \o <<len>> \o name \o buf
                      /\ nread' = nread + 1 + len + 2
                      /\ UNCHANGED <<pc, err>>
    /\ UNCHANGED <<op, src_len, overflow_checks, nt_table>>
    /\ UNCHANGED <<sfVars, disVars, relVars, resVars, fileVars, segVars, neVars>>
    /\ UNCHANGED <<tblVars, modVars>>
    /\ UNCHANGED ddVars
    /\ UNCHANGED descVars

\* ------------- define_disassemble / iter_segment_bytes (mod.rs 429-455)
\* segment buffers drawn: every sequence of 1..MaxIterLen bytes over 0, 1, 2
\* (a loaded buffer holds data_length() >= 1 bytes)
IterBytes == {0, 1, 2}
IterBufs == UNION { [1..n -> IterBytes] : n \in 1..MaxIterLen }

\* [u8]::repeat(n)
repeat(run, n) ==
    [i \in 1..(n * Len(run)) |-> run[((i - 1) % Len(run)) + 1]]

\* fn iter_segment_bytes(data): [ok |-> TRUE, bytes] or, for an index or a
\* slice range out of bounds, the panic [ok |-> FALSE]
iter_segment_bytes(data) ==
    IF Len(data) < 4 THEN [ok |-> FALSE]
    ELSE LET iterations == u16_from_le_bytes(<<data[1], data[2]>>)
             data_size == u16_from_le_bytes(<<data[3], data[4]>>)
         IN  IF 4 + data_size > Len(data) THEN [ok |-> FALSE]
             ELSE [ok |-> TRUE,
                   bytes |-> repeat(SubSeq(data, 5, 4 + data_size), iterations)]

NotCalled == [kind |-> "none", code |-> <<>>]

DdIdle ==
    /\ dd_data = <<>> /\ dd_is_data = FALSE /\ dd_is_iterated = FALSE
    /\ dd_out = NotCalled

InitDefineDisassemble ==
    /\ op = "define_disassemble" /\ pc = "call" /\ err = ""
    /\ nread = 0 /\ src_len = 0
    /\ dd_data \in IterBufs
    /\ dd_is_data \in BOOLEAN /\ dd_is_iterated \in BOOLEAN
    /\ dd_out = NotCalled

\* fn define_disassemble (lines 429-439)
DefineDisassemble ==
    /\ op = "define_disassemble" /\ pc = "call"
    /\ IF dd_is_data
       THEN pc' = "ok" /\ dd_out' = [kind |-> "skipped", code |-> <<>>]
       ELSE IF ~dd_is_iterated
       THEN pc' = "ok" /\ dd_out' = [kind |-> "disassemble", code |-> dd_data]
       ELSE LET r == iter_segment_bytes(dd_data) IN
            IF r.ok
            THEN pc' = "ok" /\ dd_out' = [kind |-> "disassemble", code |-> r.bytes]
            ELSE pc' = "panic" /\ UNCHANGED dd_out
    /\ UNCHANGED <<op, err, nread, src_len, overflow_checks>>
    /\ UNCHANGED <<dd_data, dd_is_data, dd_is_iterated>>
    /\ UNCHANGED <<sfVars, disVars, relVars, resVars, fileVars, segVars, neVars>>
    /\ UNCHANGED <<tblVars, modVars, nameVars>>
    /\ UNCHANGED descVars

\* ------------------------------ NeExecutable::describe (mod.rs 124-420)
\* describe(show_data = false, disassemble = false) of an executable that
\* read returned: its relocation_tables_per_segment holds the tables of the
\* segments with 0x0008, in segment order (lines 99-105). What is printed is
\* not kept, only which relocation table each segment's lines were taken from.
DescIdle == desc_names = <<>> /\ desc_i = 0 /\ desc_shown = <<>>

\* the tables read pushed: the numbers of the segments with 0x0008
relocation_tables_of(segs) ==
    SelectSeq([s \in 1..Len(segs) |-> s], LAMBDA s : has_relocation_table(segs[s]))

InitDescribe ==
    /\ op = "describe" /\ pc = "segments" /\ err = ""
    /\ nread = 0 /\ src_len = 0
    /\ \E n \in 0..MaxSegs :
       \E bufs \in [1..n -> TblSegBufs] :
          /\ segment_entries =
                [i \in 1..n |-> [header |-> NeSegmentHeader_read(bufs[i]),
                                 shift_count |-> 8, data |-> NoData]]
          /\ relocs_per_segment =
                relocation_tables_of(
                   [i \in 1..n |-> [header |-> NeSegmentHeader_read(bufs[i])]])
    /\ stages = <<>> /\ seg_i = 0 /\ exe = "built"
    /\ desc_names \in {0, 1} \X {0, 1}
    /\ desc_i = 1 /\ desc_shown = <<>>

\* One iteration of the segment loop (lines 239-283); desc_i is i + 1.
\* relocation_tables_per_segment[i] out of bounds panics.
DescribeSegment ==
    /\ op = "describe" /\ pc = "segments" /\ desc_i <= Len(segment_entries)
    /\ IF Len(relocs_per_segment) = 0
       THEN /\ desc_shown' = Append(desc_shown, 0)
            /\ desc_i' = desc_i + 1
            /\ UNCHANGED pc
       ELSE IF desc_i - 1 >= Len(relocs_per_segment)
       THEN pc' = "panic" /\ UNCHANGED <<desc_shown, desc_i>>
       ELSE /\ desc_shown' = Append(desc_shown, relocs_per_segment[desc_i])
            /\ desc_i' = desc_i + 1
            /\ UNCHANGED pc
    /\ UNCHANGED <<op, err, nread, src_len, overflow_checks, desc_names>>
    /\ UNCHANGED <<sfVars, disVars, relVars, resVars, fileVars, segVars, neVars>>
    /\ UNCHANGED <<tblVars, modVars, nameVars, ddVars>>

\* The rest of describe (lines 285-353): `!entries.len() > 1` is
\* (!entries.len()) > 1, true for every length a Vec can have, so
\* &entries[1..] is taken also of an empty name table, and panics.
DescribeRest ==
    /\ op = "describe" /\ pc = "segments" /\ desc_i > Len(segment_entries)
    /\ pc' = IF desc_names[1] = 0 \/ desc_names[2] = 0 THEN "panic" ELSE "ok"
    /\ UNCHANGED <<op, err, nread, src_len, overflow_checks, descVars>>
    /\ UNCHANGED <<sfVars, disVars, relVars, resVars, fileVars, segVars, neVars>>
    /\ UNCHANGED <<tblVars, modVars, nameVars, ddVars>>

\* ---------------------------------------------------- claims: entry table
\* C1: read_sf never consumes more than the declared length cb_ent_tab from
\* the byte source, and its u16 budget never goes below 0 (no underflow,
\* neither as a panic nor as a wrap).
C1_NeverReadsPastLength ==
    op = "read_sf" => (nread <= cb_ent_tab /\ ~underflowed /\ pc # "panic")

\* C2: whenever read_sf returns Ok it has consumed exactly cb_ent_tab bytes.
C2_OkConsumesExactlyLength ==
    (op = "read_sf" /\ pc = "ok") => nread = cb_ent_tab

\* C3: a bundle header naming a Fixed or Moveable body larger than what is
\* left of the declared length after that header makes read_sf return
\* Err(InvalidData).
C3_OverrunIsInvalidData ==
    [][ ( /\ op = "read_sf" /\ pc = "loop" /\ nread' = nread + 2
          /\ buffer'[1] > 0 /\ buffer'[2] # 0
          /\ buffer'[1] * entry_size(buffer'[2]) > cb_ent_tab - nread' )
        => (pc' = "err" /\ err' = "InvalidData") ]_vars

\* C18: whenever read_sf has not panicked, its entries are those of the
\* bundles in the bytes read so far, in stream order: a bundle with count
\* n > 0 and segment indicator s gives n Unused entries and no body bytes when
\* s = 0, n Fixed entries of 3 bytes (flags, little-endian offset) with
\* segment s when 1 <= s <= 254, and n Moveable entries of 6 bytes (flags,
\* 2-byte magic, segment, little-endian offset) when s = 255; a bundle whose
\* bodies have not all been read gives the entries of the bodies read.
C18_BundleEntries ==
    LET st == sf_stream
        Fixed(i, s) == [kind |-> "Fixed", segment |-> s, flags |-> st[i],
                        offset |-> st[i + 1] + 256 * st[i + 2]]
        Moveable(i) == [kind |-> "Moveable", flags |-> st[i],
                        magic |-> <<st[i + 1], st[i + 2]>>, segment |-> st[i + 3],
                        offset |-> st[i + 4] + 256 * st[i + 5]]
        Min(a, b) == IF a < b THEN a ELSE b
        RECURSIVE Parse(_)
        Parse(i) ==
            IF i + 1 > Len(st) THEN <<>>
            ELSE LET n == st[i]
                     s == st[i + 1]
                     w == IF s = 0 THEN 0 ELSE IF s = 255 THEN 6 ELSE 3
                     have == IF w = 0 THEN n ELSE Min(n, (Len(st) - (i + 1)) \div w)
                 IN  IF n = 0 THEN <<>>
                     ELSE [k \in 1..have |->
                             IF s = 0 THEN [kind |-> "Unused"]
                             ELSE IF s = 255 THEN Moveable(i + 2 + 6 * (k - 1))
                             ELSE Fixed(i + 2 + 3 * (k - 1), s)]
                          \o Parse(i + 2 + n * w)
    IN  (op = "read_sf" /\ pc # "panic") => entries = Parse(1)

\* a table of length 8 holding one bundle of two Fixed entries of segment 254
\* has been read without the budget underflowing
C18_Witness ==
    /\ op = "read_sf" /\ pc = "ok" /\ ~underflowed /\ cb_ent_tab = 8
    /\ sf_stream = <<2, 254, 0, 0, 0, 3, 52, 18>>
    /\ entries = << [kind |-> "Fixed", segment |-> 254, flags |-> 0, offset |-> 0],
                    [kind |-> "Fixed", segment |-> 254, flags |-> 3, offset |-> 4660] >>

\* ---------------------------------------------------- claims: disassemble
\* C4: every iteration of the disassembly loop advances pos by at least one
\* byte, for every slice and either default-width flag, so the loop runs at
\* most code.len() times.
C4_LoopAdvances ==
    [][ (op = "disassemble" /\ pc = "loop" /\ pos < Len(code))
        => pos' >= pos + 1 ]_vars

\* a finished listing holding both a decoded instruction and a placeholder
C4_Witness ==
    /\ op = "disassemble" /\ pc = "ok" /\ Len(insts) >= 2
    /\ \E i \in 1..Len(insts) : insts[i].is_invalid
    /\ \E i \in 1..Len(insts) : ~insts[i].is_invalid

\* C5: whenever eat fails on code[pos..], the instruction pushed is the
\* invalid placeholder: is_invalid, length 1, opcode = code[pos], every other
\* field absent, and the next decode starts at pos + 1.
C5_InvalidPlaceholder ==
    [][ ( /\ op = "disassemble" /\ pc = "loop" /\ pos < Len(code)
          /\ ~eat(SubSeq(code, pos + 1, Len(code)), is_32).ok )
        => ( /\ Len(insts') = Len(insts) + 1
             /\ LET inst == insts'[Len(insts')]
                IN  /\ inst.is_invalid
                    /\ Inst_len(inst) = 1
                    /\ inst.pos = pos
                    /\ inst.opcode = code[pos + 1]
                    /\ inst.inst_prefix = <<>> /\ inst.addr_prefix = <<>>
                    /\ inst.size_prefix = <<>> /\ inst.segm_prefix = <<>>
                    /\ inst.opcode2 = <<>> /\ inst.modrm = <<>> /\ inst.sib = <<>>
                    /\ inst.displacement.kind = "None"
                    /\ inst.immediate.kind = "None"
             /\ pos' = pos + 1 ) ]_vars

\* a placeholder for a 0x0F whose second opcode byte is missing or invalid,
\* followed by a decode that started one byte later
C5_Witness ==
    /\ op = "disassemble" /\ Len(insts) >= 2
    /\ insts[1].is_invalid /\ insts[1].opcode = 15
    /\ insts[2].pos = 1

\* C11: an opcode byte that is valid, is not the 0x0F escape, has no ModRM
\* and has no immediate decodes to a valid instruction of length exactly 1
\* made of that byte alone; the slice 40 41 decodes to exactly two valid
\* instructions, at positions 0 and 1, each of length 1.
C11_PlainOpcodeLengthOne ==
    [][ /\ ( /\ op = "disassemble" /\ pc = "loop" /\ pos < Len(code)
             /\ lookup_byte(OPCODE_VALIDITY_MAP, code[pos + 1])
             /\ code[pos + 1] # 15
             /\ ~lookup_byte(HAS_MODRM, code[pos + 1])
             /\ ~lookup_byte(IMMEDIATE_MAP, code[pos + 1]) )
           => /\ pos' = pos + 1
              /\ Len(insts') = Len(insts) + 1
              /\ ~insts'[Len(insts')].is_invalid
              /\ insts'[Len(insts')].opcode = code[pos + 1]
              /\ insts'[Len(insts')].pos = pos
              /\ Inst_len(insts'[Len(insts')]) = 1
        /\ (op = "disassemble" /\ code = <<64, 65>> /\ pc' = "ok")
           => /\ Len(insts') = 2
              /\ \A i \in 1..2 :
                    /\ insts'[i].pos = i - 1 /\ insts'[i].opcode = 63 + i
                    /\ ~insts'[i].is_invalid /\ Inst_len(insts'[i]) = 1
      ]_vars

\* the slice 40 41 has been disassembled into two instructions
C11_Witness ==
    /\ op = "disassemble" /\ pc = "ok" /\ code = <<64, 65>>
    /\ Len(insts) = 2 /\ insts[2].pos = 1 /\ ~insts[2].is_invalid

\* C12: the texts printed for the instructions decoded from bytes 40 and 41
\* differ from each other.
C12_TextsDistinguishRegisters ==
    (op = "disassemble" /\ pc = "ok" /\ code = <<64, 65>>) =>
        /\ Len(printed) = 2
        /\ printed[1] # printed[2]

\* C14: eat reads a SIB byte iff a ModRM byte is present, the effective
\* address width is 32-bit (is_32c XOR a 0x67 prefix), the ModRM r/m field
\* (bits 0-2) is 4 and the ModRM mode field (bits 6-7) is not 3.
C14_SibIffRmIsEscape ==
    op = "disassemble" =>
        \A i \in 1..Len(insts) :
            ~insts[i].is_invalid =>
                (is_some(insts[i].sib) <=>
                    /\ is_some(insts[i].modrm)
                    /\ (insts[i].is_32c # is_some(insts[i].addr_prefix))
                    /\ insts[i].modrm[1] % 8 = 4
                    /\ insts[i].modrm[1] \div 64 # 3)

\* C19: the immediate of a decoded instruction is absent if the opcode is not
\* in IMMEDIATE_MAP; else 1 byte if it is in IMMEDIATE_BYTE_MAP; else 4 bytes
\* (is_32c XOR a 0x66 prefix) or 2 bytes if it is in IMMEDIATE_WIDE_MAP; else
\* 2 bytes for opcodes 0xC2 and 0xCA; else absent; its bytes are the last
\* bytes of the instruction.
C19_ImmediateSize ==
    op = "disassemble" =>
        \A i \in 1..Len(insts) :
            ~insts[i].is_invalid =>
                LET inst == insts[i]
                    o == inst.opcode
                    is_32d == (inst.is_32c # is_some(inst.size_prefix))
                    n == IF ~lookup_byte(IMMEDIATE_MAP, o) THEN 0
                         ELSE IF lookup_byte(IMMEDIATE_BYTE_MAP, o) THEN 1
                         ELSE IF lookup_byte(IMMEDIATE_WIDE_MAP, o)
                              THEN (IF is_32d THEN 4 ELSE 2)
                         ELSE IF o = 194 \/ o = 202 THEN 2
                         ELSE 0
                    end == inst.pos + Inst_len(inst)
                IN  /\ Len(inst.immediate.bytes) = n
                    /\ Immediate_len(inst.immediate) = n
                    /\ inst.immediate.bytes = SubSeq(code, end - n + 1, end)

\* opcode 0xB8 under the 0x66 prefix in a 16-bit segment, decoded with the
\* 4-byte immediate that follows it
C19_Witness ==
    /\ op = "disassemble" /\ pc = "ok" /\ ~is_32
    /\ \E i \in 1..Len(insts) :
          /\ insts[i].opcode = 184 /\ is_some(insts[i].size_prefix)
          /\ insts[i].immediate = [kind |-> "DWord", bytes |-> <<1, 2, 3, 4>>]
          /\ Inst_len(insts[i]) = 6

\* C20: the displacement of a decoded instruction is absent without a ModRM
\* byte; with 16-bit effective addressing it is 1 byte for mode 1, 2 bytes for
\* mode 2, 2 bytes for mode 0 with r/m 6 and absent otherwise; with 32-bit
\* effective addressing it is 1 byte for mode 1, 4 bytes for mode 2, 4 bytes
\* for mode 0 with r/m 5 and absent otherwise; its bytes follow the ModRM
\* byte and the SIB byte, if any.
C20_DisplacementSize ==
    op = "disassemble" =>
        \A i \in 1..Len(insts) :
            ~insts[i].is_invalid =>
                LET inst == insts[i]
                    is_32a == (inst.is_32c # is_some(inst.addr_prefix))
                    mode == inst.modrm[1] \div 64
                    rm == inst.modrm[1] % 8
                    n == IF inst.modrm = <<>> THEN 0
                         ELSE IF mode = 1 THEN 1
                         ELSE IF mode = 2 THEN (IF is_32a THEN 4 ELSE 2)
                         ELSE IF mode = 0 /\ is_32a /\ rm = 5 THEN 4
                         ELSE IF mode = 0 /\ ~is_32a /\ rm = 6 THEN 2
                         ELSE 0
                    start == inst.pos + Inst_len(inst)
                               - Immediate_len(inst.immediate)
                               - Immediate_len(inst.displacement)
                IN  /\ Len(inst.displacement.bytes) = n
                    /\ Immediate_len(inst.displacement) = n
                    /\ inst.displacement.bytes = SubSeq(code, start + 1, start + n)

\* in a 32-bit segment, a mode-2 ModRM byte under the 0x67 prefix, decoded
\* with the 2-byte displacement of 16-bit addressing
C20_Witness ==
    /\ op = "disassemble" /\ pc = "ok" /\ is_32 /\ Len(insts) >= 1
    /\ insts[1].opcode = 0 /\ insts[1].modrm = <<128>>
    /\ is_some(insts[1].addr_prefix)
    /\ insts[1].displacement = [kind |-> "Word", bytes |-> <<1, 2>>]

\* C21: a decoded instruction has a second opcode byte iff its opcode byte,
\* the byte after its prefixes, is 0x0F, and the second opcode byte is the
\* byte after it; an instruction is decoded only if its opcode byte has its
\* bit set in the one-byte validity bitmap and, for 0x0F, the second opcode
\* byte has its bit set in the two-byte validity bitmap (otherwise the
\* placeholder is pushed); a ModRM byte is present iff the bitmap of the
\* active opcode, the two-byte one iff a second opcode byte was read, has
\* the bit set.
C21_TwoByteOpcodes ==
    op = "disassemble" =>
        \A i \in 1..Len(insts) :
            LET inst == insts[i]
                o_at == inst.pos + Len(inst.inst_prefix) + Len(inst.addr_prefix)
                          + Len(inst.size_prefix) + Len(inst.segm_prefix) + 1
                valid1 == lookup_byte(OPCODE_VALIDITY_MAP, code[o_at])
                valid2 == /\ o_at + 1 <= Len(code)
                          /\ lookup_byte(OPCODE2_VALIDITY_MAP, code[o_at + 1])
            IN  /\ inst.opcode = code[o_at]
                /\ ~inst.is_invalid =>
                      /\ valid1
                      /\ is_some(inst.opcode2) <=> inst.opcode = 15
                      /\ inst.opcode = 15 =>
                            valid2 /\ inst.opcode2 = <<code[o_at + 1]>>
                      /\ is_some(inst.modrm) <=>
                            IF inst.opcode = 15
                            THEN lookup_byte(HAS_MODRM2, code[o_at + 1])
                            ELSE lookup_byte(HAS_MODRM, code[o_at])
                /\ (~valid1 \/ (code[o_at] = 15 /\ ~valid2)) => inst.is_invalid

\* 0F 00 decoded as a two-byte opcode without a ModRM byte (the one-byte
\* bitmap gives opcode 0x0F none, and opcode 0x00 one), and 0F A3 decoded
\* with the ModRM byte the two-byte bitmap asks for
C21_Witness ==
    /\ op = "disassemble" /\ pc = "ok" /\ Len(insts) >= 1
    /\ insts[1].opcode = 15 /\ ~insts[1].is_invalid
    /\ \/ insts[1].opcode2 = <<0>> /\ insts[1].modrm = <<>> /\ Inst_len(insts[1]) = 2
       \/ insts[1].opcode2 = <<163>> /\ insts[1].modrm = <<1>>

\* C28: the instructions disassemble has pushed tile the slice: the length
\* of each is the number of bytes eat consumed at its position, or 1 for a
\* placeholder; the pos of each is the sum of the lengths before it; the
\* loop's position is the sum of all lengths and never exceeds the slice
\* length; when the loop ends the lengths sum to the slice length.
C28_InstructionsTileTheSlice ==
    LET RECURSIVE SumLen(_)
        SumLen(n) == IF n = 0 THEN 0 ELSE SumLen(n - 1) + Inst_len(insts[n])
    IN  op = "disassemble" =>
            /\ \A i \in 1..Len(insts) :
                  LET r == eat(SubSeq(code, insts[i].pos + 1, Len(code)), is_32)
                  IN  /\ Inst_len(insts[i]) = IF r.ok THEN r.consumed ELSE 1
                      /\ insts[i].is_invalid <=> ~r.ok
                      /\ insts[i].pos = SumLen(i - 1)
            /\ pos = SumLen(Len(insts))
            /\ pos <= Len(code)
            /\ pc = "ok" => pos = Len(code)

\* a listing of a 32-bit segment that begins with an instruction holding a
\* SIB byte and a displacement and goes on behind it
C28_Witness ==
    /\ op = "disassemble" /\ pc = "ok" /\ Len(insts) >= 2
    /\ is_some(insts[1].sib) /\ Inst_len(insts[1]) >= 4
    /\ insts[2].pos = Inst_len(insts[1])
    /\ pos = Len(code)

\* ------------------------------------------------ claims: relocation table
\* C6: each 8-byte relocation record is dispatched on the low 2 bits of its
\* flags byte (byte 1): 0 Internal, 1 ImportByOrdinal, 2 ImportByName; a
\* value of 3 fails the whole read with an error and yields no entry.
C6_RelocationDispatch ==
    op = "reloc_read" =>
        /\ \A i \in 1..Len(rel_entries) :
              rel_entries[i].target.kind =
                 ( CASE entry_bufs[i][2] % 4 = 0 -> "Internal"
                     [] entry_bufs[i][2] % 4 = 1 -> "ImportByOrdinal"
                     [] entry_bufs[i][2] % 4 = 2 -> "ImportByName"
                     [] OTHER -> "none" )
        /\ \A i \in 1..Len(entry_bufs) :
              entry_bufs[i][2] % 4 = 3 =>
                 /\ pc = "err" /\ err = "InvalidData"
                 /\ i = Len(entry_bufs) /\ Len(rel_entries) = i - 1
        /\ (\A i \in 1..Len(entry_bufs) : entry_bufs[i][2] % 4 # 3)
              => Len(rel_entries) = Len(entry_bufs)

\* a record decoded as ImportByName, then a record of type 3 failing the read
C6_Witness ==
    /\ op = "reloc_read" /\ pc = "err" /\ err = "InvalidData"
    /\ Len(rel_entries) = 1 /\ rel_entries[1].target.kind = "ImportByName"
    /\ Len(entry_bufs) = 2

\* -------------------------------------------------- claims: resource table
\* C7: with a resource-entry count of 0xFFFF the sentinel decoder
\* read_variadic is used; it returns exactly the resource-type records read
\* before the first one whose type-id is 0, in order, and reads none after it.
C7_SentinelMode ==
    (op = "resource" /\ num_entries = 65535 /\ pc # "dispatch") =>
        /\ callee = "read_variadic"
        /\ \A i \in 1..(Len(type_headers) - 1) : type_headers[i].type_id # 0
        /\ pc = "ok" =>
              /\ Len(type_headers) = Len(resource_types) + 1
              /\ type_headers[Len(type_headers)].type_id = 0
              /\ \A i \in 1..Len(resource_types) :
                    /\ resource_types[i].header = type_headers[i]
                    /\ Len(resource_types[i].resources) = type_headers[i].num_resources

\* two resource types, then the zero type-id record that ends the table
C7_Witness ==
    /\ op = "resource" /\ num_entries = 65535 /\ pc = "ok"
    /\ Len(resource_types) = 2 /\ Len(type_headers) = 3

\* C17 as stated: with a declared count other than 0xFFFF, a resource-type
\* record whose type-id is 0 ends the sequence: the table returned holds only
\* the records read before it.
C17_CountedStopsAtZeroTypeId ==
    (op = "resource" /\ num_entries # 65535 /\ pc = "ok") =>
        /\ \A i \in 1..Len(resource_types) : resource_types[i].header.type_id # 0
        /\ \A i \in 1..Len(type_headers) :
              type_headers[i].type_id = 0 => Len(resource_types) < i

\* C17, amended: with a declared count N other than 0xFFFF the counted
\* decoder read is used and returns exactly N resource-type records, the
\* records read in order; a record whose type-id is 0 is kept like any other,
\* with its num_resources resource headers, and does not end the sequence.
C17_CountedReadsAllRecords ==
    (op = "resource" /\ num_entries # 65535 /\ pc # "dispatch") =>
        /\ callee = "read"
        /\ Len(resource_types) <= num_entries
        /\ pc = "ok" =>
              /\ Len(resource_types) = num_entries
              /\ Len(type_headers) = num_entries
              /\ LET RECURSIVE Resources(_)
                     Resources(i) ==
                         IF i = 0 THEN 0
                         ELSE type_headers[i].num_resources + Resources(i - 1)
                 IN  nread = 2 + 8 * num_entries + 12 * Resources(num_entries)
              /\ \A i \in 1..num_entries :
                    /\ resource_types[i].header = type_headers[i]
                    /\ Len(resource_types[i].resources) = type_headers[i].num_resources

\* a counted table of two records whose first has type-id 0 and one resource
C17_Witness ==
    /\ op = "resource" /\ pc = "ok" /\ num_entries = 2
    /\ Len(resource_types) = 2
    /\ resource_types[1].header.type_id = 0
    /\ Len(resource_types[1].resources) = 1
    /\ resource_types[2].header.type_id = 32771

\* --------------------------------------------------------- claims: segments
\* C8 as stated: for every segment record data_length() and min_alloc()
\* return 65536 for a stored 0 and the stored value otherwise, and a read_data
\* that returns Ok has allocated and read exactly data_length() bytes.
C8_ReadDataAlwaysReads ==
    (op = "segment" /\ seg_buf # <<>>) =>
        LET len == seg_buf[3] + 256 * seg_buf[4]
            alloc == seg_buf[7] + 256 * seg_buf[8]
        IN  /\ data_length(ne_segment) = IF len = 0 THEN 65536 ELSE len
            /\ min_alloc(ne_segment) = IF alloc = 0 THEN 65536 ELSE alloc
            /\ pc = "ok" =>
                  /\ ne_segment.data.some
                  /\ ne_segment.data.len = (IF len = 0 THEN 65536 ELSE len)
                  /\ Len(io_log) = 3
                  /\ io_log[3].kind = "read"
                  /\ io_log[3].n = (IF len = 0 THEN 65536 ELSE len)

\* C8, amended: data_length() and min_alloc() return 65536 for a stored 0 and
\* the stored value otherwise; a read_data that returns Ok has, when the
\* stored shifted offset is not 0, sought to the offset shifted left by the
\* shift count and allocated and read exactly data_length() bytes there, and
\* has, when the stored shifted offset is 0, sought nowhere, read nothing and
\* left the segment without a buffer.
C8_ReadDataReadsStoredSegments ==
    (op = "segment" /\ seg_buf # <<>>) =>
        LET off == seg_buf[1] + 256 * seg_buf[2]
            len == seg_buf[3] + 256 * seg_buf[4]
            alloc == seg_buf[7] + 256 * seg_buf[8]
            want == IF len = 0 THEN 65536 ELSE len
        IN  /\ data_length(ne_segment) = want
            /\ min_alloc(ne_segment) = IF alloc = 0 THEN 65536 ELSE alloc
            /\ (pc = "ok" /\ off # 0) =>
                  /\ ne_segment.data = [some |-> TRUE, len |-> want]
                  /\ Len(io_log) = 3
                  /\ io_log[2] = Seek(off * Pow2(ne_segment.shift_count))
                  /\ io_log[3] = Read(off * Pow2(ne_segment.shift_count), want)
            /\ (pc = "ok" /\ off = 0) =>
                  /\ ~ne_segment.data.some
                  /\ Len(io_log) = 1
            /\ pc # "ok" => ~ne_segment.data.some

\* a segment stored with length 0 and minimum allocation 0 at a non-zero
\* offset, loaded with a 65536-byte buffer
C8_Witness ==
    /\ op = "segment" /\ pc = "ok"
    /\ seg_buf[1] # 0 /\ seg_buf[3] = 0 /\ seg_buf[4] = 0
    /\ seg_buf[7] = 0 /\ seg_buf[8] = 0
    /\ ne_segment.data = [some |-> TRUE, len |-> 65536]
    /\ min_alloc(ne_segment) = 65536

C9_BadMagicBeforeExtendedHeader ==
    (op = "ne_read" /\ dos_buf # <<>>) =>
        LET bad == dos_buf[1] # 77 \/ dos_buf[2] # 90
        IN  /\ ~DosHeader_check_magic(dos_header).ok <=> bad
            /\ (bad /\ pc # "dos_magic") =>
                  /\ pc = "err" /\ err = "InvalidInput"
                  /\ io_log = <<Read(0, 64)>>
                  /\ ne_buf = <<>>
            /\ (~bad /\ pc = "err" /\ err = "InvalidInput") =>
                  /\ Len(io_log) = 3
                  /\ ne_buf # <<>>

\* a header whose second byte is not 'Z' has been rejected
C9_Witness ==
    /\ op = "ne_read" /\ pc = "err" /\ err = "InvalidInput"
    /\ dos_buf # <<>> /\ dos_buf[1] = 77 /\ dos_buf[2] = 127
    /\ Len(io_log) = 1

\* C10: DosHeader::read and NeHeader::read set every field to the
\* little-endian value of the bytes at the field's fixed offset, whatever the
\* other bytes are; the two test fixtures decode to the tests' expected values.
C10_ByteExact ==
    LET LE2(b, o) == b[o + 1] + 256 * b[o + 2]
        LE4(b, o) == b[o + 1] + 256 * b[o + 2] + 65536 * b[o + 3]
                        + 16777216 * b[o + 4]
        d == dos_header
        h == ne_header
    IN  /\ (op = "ne_read" /\ dos_buf # <<>>) =>
              /\ d.magic = LE2(dos_buf, 0) /\ d.cblp = LE2(dos_buf, 2)
              /\ d.cp = LE2(dos_buf, 4) /\ d.crlc = LE2(dos_buf, 6)
              /\ d.cparhdr = LE2(dos_buf, 8) /\ d.minalloc = LE2(dos_buf, 10)
              /\ d.maxalloc = LE2(dos_buf, 12) /\ d.ss = LE2(dos_buf, 14)
              /\ d.sp = LE2(dos_buf, 16) /\ d.csum = LE2(dos_buf, 18)
              /\ d.ip = LE2(dos_buf, 20) /\ d.cs = LE2(dos_buf, 22)
              /\ d.lfarlc = LE2(dos_buf, 24) /\ d.ovno = LE2(dos_buf, 26)
              /\ d.res = [i \in 1..4 |-> LE2(dos_buf, 26 + 2 * i)]
              /\ d.oemid = LE2(dos_buf, 36) /\ d.oeminfo = LE2(dos_buf, 38)
              /\ d.res2 = [i \in 1..10 |-> LE2(dos_buf, 38 + 2 * i)]
              /\ d.lfanew = LE4(dos_buf, 60)
              /\ dos_buf = DosFixture => d = DosExpected
        /\ (op = "ne_read" /\ ne_buf # <<>>) =>
              /\ h.magic = <<ne_buf[1], ne_buf[2]>>
              /\ h.major_linker_version = ne_buf[3]
              /\ h.minor_linker_version = ne_buf[4]
              /\ h.entry_table_offset = LE2(ne_buf, 4)
              /\ h.entry_table_length = LE2(ne_buf, 6)
              /\ h.file_load_crc = LE4(ne_buf, 8)
              /\ h.flags = LE2(ne_buf, 12)
              /\ h.auto_data_segment_index = LE2(ne_buf, 14)
              /\ h.init_heap_size = LE2(ne_buf, 16)
              /\ h.init_stack_size = LE2(ne_buf, 18)
              /\ h.entry_point = LE4(ne_buf, 20)
              /\ h.init_stack = LE4(ne_buf, 24)
              /\ h.segment_count = LE2(ne_buf, 28)
              /\ h.module_references = LE2(ne_buf, 30)
              /\ h.non_resident_names_size = LE2(ne_buf, 32)
              /\ h.segment_table_offset = LE2(ne_buf, 34)
              /\ h.resource_table_offset = LE2(ne_buf, 36)
              /\ h.resident_names_table_offset = LE2(ne_buf, 38)
              /\ h.module_reference_table_offset = LE2(ne_buf, 40)
              /\ h.import_name_table_offset = LE2(ne_buf, 42)
              /\ h.non_resident_names_table_offset = LE4(ne_buf, 44)
              /\ h.movable_entry_point_count = LE2(ne_buf, 48)
              /\ h.file_alignment_shift_count = LE2(ne_buf, 50)
              /\ h.resource_table_entries = LE2(ne_buf, 52)
              /\ h.target_os = ne_buf[55] /\ h.os2_exe_flags = ne_buf[56]
              /\ h.return_thunk_offset = LE2(ne_buf, 56)
              /\ h.segment_reference_thunk_offset = LE2(ne_buf, 58)
              /\ h.min_code_swap = LE2(ne_buf, 60)
              /\ h.expected_win_ver = <<ne_buf[63], ne_buf[64]>>
              /\ ne_buf = NeFixture => h = NeExpected

\* both headers decoded, the NE header with the high byte of segment_count
\* replaced and the DOS header with the second byte of lfanew replaced
C10_Witness ==
    /\ op = "ne_read" /\ pc = "tables"
    /\ dos_buf[62] = 127 /\ dos_header.lfanew = 32512
    /\ ne_buf[30] = 127 /\ ne_header.segment_count = 32521
    /\ ne_header.non_resident_names_table_offset = 1902

\* ------------------------------------------- claims: NeExecutable::read
\* C13: NeExecutable::read is all-or-nothing: a step that fails makes read
\* return Err (read never ends in any other way than Ok or Err), an Err comes
\* with no NeExecutable, and a NeExecutable is returned only by the final Ok.
C13_AllOrNothing ==
    op \in {"ne_read", "ne_tables"} =>
        /\ pc # "panic"
        /\ pc = "err" =>
              /\ exe = "none"
              /\ err \in {"UnexpectedEof", "InvalidData", "InvalidInput"}
        /\ exe = "built" => pc = "ok"

\* C15 as stated: the tables are read in the order segment table, resource
\* table, name tables, module-reference table with its names, entry table;
\* both name tables are read before the module-reference table and before
\* the entry table.
C15_NameTablesFirst ==
    op = "ne_tables" =>
        \A i, j \in 1..Len(stages) :
            ( /\ stages[i].what \in {"resident_names", "nonresident_names"}
              /\ stages[j].what \in {"module_references", "import_names",
                                     "entry_table"} )
            => i < j

\* C15, amended: the tables are read in the fixed order segment table,
\* resource table, resident-name table, module-reference table, its names,
\* entry table, non-resident-name table, each after a seek; the segment data
\* and relocation tables follow; read returns Ok only after all of them.
C15_TableOrder ==
    LET Order == << "segment_table", "resource_table", "resident_names",
                    "module_references", "import_names", "entry_table",
                    "nonresident_names" >>
    IN  op = "ne_tables" =>
            /\ \A i \in 1..Len(stages) :
                  IF i <= 7 THEN stages[i].what = Order[i] /\ stages[i].seek
                  ELSE stages[i].what \in {"segment_data", "relocations"}
            /\ pc \in {"ok", "segment_data", "relocations"} => Len(stages) >= 7

\* read has returned Ok for a one-segment file: the entry table was the sixth
\* read and the non-resident-name table the seventh
C15_Witness ==
    /\ op = "ne_tables" /\ pc = "ok" /\ exe = "built"
    /\ Len(stages) >= 8
    /\ stages[4].what = "module_references"
    /\ stages[6].what = "entry_table"
    /\ stages[7].what = "nonresident_names"

C22_TableOffsets ==
    LET lfanew == dos_buf[61] + 256 * dos_buf[62] + 65536 * dos_buf[63]
        stored(k) == ne_buf[k + 1] + 256 * ne_buf[k + 2]
        sought(what) ==
            CASE what = "segment_table" -> lfanew + stored(34)
              [] what = "resource_table" -> lfanew + stored(36)
              [] what = "resident_names" -> lfanew + stored(38)
              [] what = "module_references" -> lfanew + stored(40)
              [] what = "import_names" -> lfanew + stored(42) + 1
              [] what = "entry_table" -> lfanew + stored(4)
              [] what = "nonresident_names" -> stored(44) + 65536 * stored(46)
    IN  op = "ne_tables" =>
            \A i \in 1..Len(stages) :
                stages[i].what \notin {"segment_data", "relocations"} =>
                    /\ stages[i].seek
                    /\ stages[i].at = sought(stages[i].what)
                    /\ \E k \in 1..Len(io_log) :
                          /\ io_log[k] = Seek(stages[i].at)
                          /\ k < Len(io_log) => io_log[k + 1].at = stages[i].at

\* all seven tables of the fixture sought: the segment table at 1536 + 64 and
\* the non-resident names at 1902
C22_Witness ==
    /\ op = "ne_tables" /\ pc = "ok" /\ Len(stages) >= 7
    /\ stages[1].at = 1600 /\ stages[6].at = 1900 /\ stages[7].at = 1902
    /\ \E k \in 1..Len(io_log) : io_log[k] = Seek(1902)

\* C24: RelocationTable::read is called for a segment iff bit 0x0008 of the
\* flags word stored in its segment record is set; the tables pushed are, in
\* segment order, one per such segment the loop has passed; a
\* RelocationTable::read that returns Ok holds as many entries as its 2-byte
\* count prefix says, having read that many 8-byte records.
C24_RelocationTablePerFlaggedSegment ==
    LET flagged(s) == (segment_entries[s].header.flags \div 8) % 2 = 1
        passed == IF pc = "ok" THEN Len(segment_entries)
                  ELSE IF pc \in {"segment_data", "relocations", "err"}
                       THEN seg_i - 1 ELSE 0
        called(s) == { j \in 1..Len(stages) :
                         stages[j].what = "relocations" /\ stages[j].seg = s }
    IN  /\ op = "ne_tables" =>
              /\ \A s \in 1..Len(segment_entries) :
                    /\ called(s) # {} => flagged(s)
                    /\ (flagged(s) /\ s <= passed) => Cardinality(called(s)) = 1
                    /\ ~flagged(s) => called(s) = {}
              /\ relocs_per_segment =
                    SelectSeq([s \in 1..passed |-> s], flagged)
        /\ (op = "reloc_read" /\ pc = "ok") =>
              /\ Len(rel_entries) = count
              /\ Len(entry_bufs) = count
              /\ nread = 2 + 8 * count

\* of two segments only the second carries the flag: one table, read after
\* the second segment's data
C24_Witness ==
    /\ op = "ne_tables" /\ pc = "ok" /\ Len(segment_entries) = 2
    /\ segment_entries[1].header.flags = 0
    /\ segment_entries[2].header.flags = 8
    /\ relocs_per_segment = <<2>>
    /\ stages[Len(stages)].what = "relocations"

\* ------------------------------------ claims: module-reference table
\* C25: ModuleReferenceTable::read yields num entries, each holding the
\* 16-bit little-endian offset read for it and an empty name; read_names
\* then takes the entries in order and for each seeks to the import-name
\* base plus the entry's offset, reads one length byte n and then n bytes,
\* which become the entry's name; the entries' offsets, number and order
\* stay as read.
C25_TwoPhaseModuleReferences ==
    op = "modref" =>
        /\ Len(mr_entries) = Len(mr_bufs)
        /\ pc \in {"read_names", "ok"} => Len(mr_entries) = mr_num
        /\ pc = "read" => \A k \in 1..Len(io_log) : io_log[k].kind = "read"
        /\ \A i \in 1..Len(mr_entries) :
              LET off == mr_bufs[i][1] + 256 * mr_bufs[i][2]
                  at == mr_offset + off
                  n == mr_file[off + 1]
                  k == mr_num + 3 * (i - 1)
              IN  /\ mr_entries[i].header.offset = off
                  /\ i < mr_i =>
                        /\ mr_entries[i].name =
                              [j \in 1..n |-> mr_file[off + 1 + j]]
                        /\ io_log[k + 1] = Seek(at)
                        /\ io_log[k + 2] = Read(at, 1)
                        /\ io_log[k + 3] = Read(at + 1, n)
                  /\ (i > mr_i \/ (i = mr_i /\ pc # "err")) =>
                        mr_entries[i].name = <<>>
        /\ pc = "ok" => mr_i = mr_num + 1 /\ Len(io_log) = 4 * mr_num

\* two references whose names were read out of stream order: the first at
\* name offset 3, the second at name offset 1
C25_Witness ==
    /\ op = "modref" /\ pc = "ok" /\ mr_num = 2
    /\ mr_file = <<0, 1, 65, 2, 66, 67>>
    /\ mr_entries[1] = [header |-> [offset |-> 3], name |-> <<66, 67>>]
    /\ mr_entries[2] = [header |-> [offset |-> 1], name |-> <<65>>]

\* ------------------------------------------------- claims: name tables
\* C26: the entries of a name table are, in stream order, one per non-zero
\* length prefix n read before the first zero length prefix: the name is the
\* n bytes after the prefix and the index the little-endian word after the
\* name, 1 + n + 2 bytes in all; a read that returns Ok has consumed the
\* stream up to and including the first zero length prefix and nothing more;
\* no entry stands for the terminator.
C26_NameTableEntries ==
    LET RECURSIVE Parse(_)
        Parse(s) ==
            IF s = <<>> \/ s[1] = 0 \/ Len(s) < 1 + s[1] + 2 THEN <<>>
            ELSE <<[name |-> SubSeq(s, 2, 1 + s[1]),
                    index |-> s[s[1] + 2] + 256 * s[s[1] + 3]]>>
                 \o Parse(SubSeq(s, s[1] + 4, Len(s)))
        RECURSIVE Size(_)
        Size(es) == IF es = <<>> THEN 0
                    ELSE 1 + Len(Head(es).name) + 2 + Size(Tail(es))
    IN  op = "names" =>
            /\ nt_entries = Parse(nt_stream)
            /\ \A i \in 1..Len(nt_entries) : Len(nt_entries[i].name) >= 1
            /\ pc = "loop" => nread = Size(nt_entries) /\ nread = Len(nt_stream)
            /\ pc = "ok" =>
                  /\ nread = Size(nt_entries) + 1
                  /\ Len(nt_stream) = nread
                  /\ nt_stream[nread] = 0

\* two entries and the terminator: a 1-byte name that is a 0 byte with index
\* 0x0100, then a 1-byte name with index 1
C26_Witness ==
    /\ op = "names" /\ pc = "ok"
    /\ nt_stream = <<1, 0, 0, 1, 1, 65, 1, 0, 0>>
    /\ nt_entries = << [name |-> <<0>>, index |-> 256],
                       [name |-> <<65>>, index |-> 1] >>

\* ------------------------------------------- claims: iterated segments
\* C27: for every loaded buffer of a code segment flagged iterated,
\* define_disassemble gets from iter_segment_bytes, without a fault, the n
\* bytes after the 4-byte prefix repeated k times, k * n bytes in all (k the
\* little-endian word of bytes 0-1, n that of bytes 2-3).
C27_IteratedRunRepeated ==
    ( /\ op = "define_disassemble" /\ pc # "call"
      /\ ~dd_is_data /\ dd_is_iterated ) =>
        /\ pc = "ok"
        /\ LET k == dd_data[1] + 256 * dd_data[2]
               n == dd_data[3] + 256 * dd_data[4]
           IN  /\ Len(dd_out.code) = k * n
               /\ \A i \in 1..(k * n) :
                     dd_out.code[i] = dd_data[4 + ((i - 1) % n) + 1]

\* -------------------------------- claims: relocation tables of segments
\* C29: the relocation table of a segment with 0x0008 is read starting at the
\* file position right behind that segment's data, data_offset() +
\* data_length(), also for a segment whose stored shifted offset is 0.
C29_RelocationsBehindData ==
    op = "ne_tables" =>
        \A j \in 1..Len(stages) :
            stages[j].what = "relocations" =>
                LET seg == segment_entries[stages[j].seg]
                    len == IF seg.header.data_length = 0 THEN 65536
                           ELSE seg.header.data_length
                IN  stages[j].at =
                       seg.header.data_offset_shifted * Pow2(seg.shift_count) + len

\* C30: in describe, the lookup relocation_tables_per_segment[i] made for
\* segment i is within bounds and yields the relocation table read for
\* segment i, whichever segments carry the relocation flag.
C30_DescribeLooksUpOwnTable ==
    op = "describe" =>
        /\ ~(pc = "panic" /\ desc_i <= Len(segment_entries))
        /\ \A i \in 1..Len(desc_shown) :
              desc_shown[i] # 0 => desc_shown[i] = i

\* ------------------------------------------------------------ specification
Init ==
    \/ /\ overflow_checks \in BOOLEAN
       /\ InitReadSf
       /\ DisIdle /\ RelIdle /\ ResIdle /\ FileIdle /\ SegIdle /\ NeIdle /\ TblIdle /\ ModIdle /\ NameIdle /\ DdIdle /\ DescIdle
    \/ /\ overflow_checks = FALSE
       /\ InitDisassemble
       /\ SfIdle /\ RelIdle /\ ResIdle /\ FileIdle /\ SegIdle /\ NeIdle /\ TblIdle /\ ModIdle /\ NameIdle /\ DdIdle /\ DescIdle
    \/ /\ overflow_checks = FALSE
       /\ InitReloc
       /\ SfIdle /\ DisIdle /\ ResIdle /\ FileIdle /\ SegIdle /\ NeIdle /\ TblIdle /\ ModIdle /\ NameIdle /\ DdIdle /\ DescIdle
    \/ /\ overflow_checks = FALSE
       /\ InitResource
       /\ SfIdle /\ DisIdle /\ RelIdle /\ FileIdle /\ SegIdle /\ NeIdle /\ TblIdle /\ ModIdle /\ NameIdle /\ DdIdle /\ DescIdle
    \/ /\ overflow_checks = FALSE
       /\ InitSegment
       /\ SfIdle /\ DisIdle /\ RelIdle /\ ResIdle /\ NeIdle /\ TblIdle /\ ModIdle /\ NameIdle /\ DdIdle /\ DescIdle
    \/ /\ overflow_checks = FALSE
       /\ InitNeRead
       /\ SfIdle /\ DisIdle /\ RelIdle /\ ResIdle /\ SegIdle /\ TblIdle /\ ModIdle /\ NameIdle /\ DdIdle /\ DescIdle
    \/ /\ overflow_checks = FALSE
       /\ InitModRef
       /\ SfIdle /\ DisIdle /\ RelIdle /\ ResIdle /\ SegIdle /\ NeIdle /\ TblIdle /\ NameIdle /\ DdIdle /\ DescIdle
    \/ /\ overflow_checks = FALSE
       /\ InitNames
       /\ SfIdle /\ DisIdle /\ RelIdle /\ ResIdle /\ FileIdle /\ SegIdle /\ NeIdle /\ TblIdle /\ ModIdle /\ DdIdle /\ DescIdle
    \/ /\ overflow_checks = FALSE
       /\ InitDefineDisassemble
       /\ SfIdle /\ DisIdle /\ RelIdle /\ ResIdle /\ FileIdle /\ SegIdle /\ NeIdle /\ TblIdle /\ ModIdle /\ NameIdle /\ DescIdle
    \/ /\ overflow_checks = FALSE
       /\ InitDescribe
       /\ SfIdle /\ DisIdle /\ RelIdle /\ ResIdle /\ FileIdle /\ SegIdle /\ NeIdle /\ ModIdle /\ NameIdle /\ DdIdle
    \/ /\ overflow_checks \in BOOLEAN
       /\ InitNeTables
       /\ SfIdle /\ DisIdle /\ RelIdle /\ ResIdle /\ SegIdle /\ ModIdle /\ NameIdle /\ DdIdle /\ DescIdle

Next ==
    \/ ReadSfHeader
    \/ ReadSfEntry
    \/ ReadSfReturn
    \/ DisassembleStep
    \/ DisassembleDone
    \/ RelocReadCount
    \/ RelocReadEntry
    \/ RelocReturn
    \/ ResReadTableHeader
    \/ ResReadTypeHeader
    \/ ResReadResource
    \/ ResReturn
    \/ SegmentRead
    \/ SegmentReadData
    \/ NeReadDosHeader
    \/ NeCheckDosMagic
    \/ NeSeekHeader
    \/ NeReadNeHeader
    \/ NeCheckNeMagic
    \/ NeTblSegmentTable
    \/ NeTblResourceTable
    \/ NeTblResidentNames
    \/ NeTblModuleReferences
    \/ NeTblImportNames
    \/ NeTblEntryTable
    \/ NeTblNonresidentNames
    \/ NeTblSegmentData
    \/ NeTblRelocations
    \/ NeTblReturn
    \/ ModRefReadEntry
    \/ ModRefReadReturn
    \/ ModRefReadName
    \/ ModRefNamesReturn
    \/ NameReadEntry
    \/ DefineDisassemble
    \/ DescribeSegment
    \/ DescribeRest

Spec == Init /\ [][Next]_vars

====
